---------------------------- MODULE Spec2Model ----------------------------
(***************************************************************************)
(* Dupletti: the Store (file_digests, video_hash), the Exact Clusterer     *)
(* (similarities.rs) and the Perceptual Clusterer (videohash.rs).          *)
(*                                                                         *)
(* Dupletti's query server (interface.rs), its two batch pipelines         *)
(* (filehashing.rs, videohash.rs) and reconciliation (main.rs) follow.     *)
(*                                                                         *)
(* The specifications of this module:                                      *)
(*   Spec          the Store under any sequence of its operations          *)
(*   SpecFiles     the operations of Spec on the relation file_digests     *)
(*   SpecExact     find_similarities applied to a list of FileDigests      *)
(*   SpecVideo     calculate_distances / find_similar_files applied to a   *)
(*                 list of VideoHashes and a threshold                     *)
(*   SpecWeb       the request handlers and the stepwise refresh, all      *)
(*                 under db_mutex                                          *)
(*   SpecPreview   the /preview/{file_id} route and allow_preview          *)
(*   SpecPipeline  process_filelist / update_hashes: producers, channel,   *)
(*                 batching consumer, commits                              *)
(*   SpecReconcile update_database run repeatedly on one disk listing      *)
(*   SpecListing   direct inserts, one run of process_filelist, listings   *)
(*   SpecRemove    GET /remove/{id} with its response                      *)
(*   SpecDigestLen inserts of records with digests of 4 and of 64 bytes    *)
(*   SpecResultbag get_list_of_similar_files: find_similarities and        *)
(*                 into_resultbag on a Store                               *)
(*   SpecGetHash   get_hash applied to a file and a behaviour of read      *)
(*   SpecVideo64   calculate_distances on histograms of 64 bytes           *)
(*   SpecHistogram calculate_color_histogram applied to a video            *)
(*   SpecPipelineFair SpecPipeline with its threads scheduled fairly       *)
(*   SpecProvenance   update_hashes between inserts and deletes of rows    *)
(*   SpecIndexRename  update_database and GET /rename on one Database      *)
(*   SpecFabric       the routes and update_hashes on the two mutexes      *)
(*   SpecView         SpecWeb with GET /videohash/{threshold}              *)
(*   SpecRenameRoute  GET /rename/{id}/{new_name} with its response        *)
(*   SpecUnionFind    _find and _union of find_similar_files, by turns     *)
(***************************************************************************)
EXTENDS Integers, Sequences, FiniteSets, TLC

VARIABLES
    file_digests,       \* rows of relation file_digests: [id, path, digest, size]
    video_hash,         \* rows of relation video_hash: [id, histogram]
    video_hash_exists,  \* whether the database file holds a relation video_hash
    filelist,           \* update_hashes: ids listed and not yet committed
    last,               \* the last Store call: [op, ok, err, arg, ret]
    ex_files,           \* find_similarities: its argument
    ex_result,          \* find_similarities: its result (a set of id lists)
    ex_pc,              \* "start" | "done"
    vh_files,           \* VideoHashData.hashes
    vh_threshold,       \* threshold of find_similar_files
    vh_dist,            \* VideoHashData.distances
    vh_bags,            \* result of find_similar_files (a set of index lists)
    vh_pc,              \* "start" | "distances" | "done"
    db_mutex,           \* who holds the Mutex<Database>: "free" | "refresh"
    rf_pc,              \* VideoHashData::refresh: "idle" | "locked" | "files" | "joined"
    rf_rows,            \* rows the SELECT of refresh has produced so far
    allow_preview,      \* --allow-preview
    pl_kind,            \* the pipeline that runs: "digest" | "hash"
    pl_pc,              \* "list" | "run" | "returned" | "aborted"
    pl_result,          \* what the pipeline function returned: "none" | "ok" | "err"
    commit_batchsize,   \* --commit-batchsize
    pl_input,           \* the list of items the producers were given
    pl_outcome,         \* item -> what happened to it in its producer
    pl_todo,            \* items no producer has finished yet
    pl_chan,            \* the mpsc channel: messages sent and not yet received
    pl_buf,             \* the consumer's buffer (filedigests / hashes)
    pl_commits,         \* the transactions attempted: [n, at, ok]
    rc_pc,              \* update_database: "start" | "filter" | "process" | "done"
    complete_filelist,  \* list_files_in_directory(path)
    clean_unfound,      \* --clean-unfound
    rc_removed,         \* the paths printed by remove_outdated_files
    rc_results,         \* what the runs of update_database returned
    rc_prev_outcome,    \* pl_outcome of the run before
    vhd_mutex,          \* who holds the Mutex<VideoHashData>: "free" | a thread
    poisoned,           \* the mutexes a panic has poisoned: subset of {"db", "vhd"}
    req,                \* thread -> [route, pc]: the request it serves
    uf                  \* the union-find of find_similar_files: parent and the call
                        \* of _find / _union that runs on it

store_vars == <<file_digests, video_hash, video_hash_exists, filelist, last>>
exact_vars == <<ex_files, ex_result, ex_pc>>
video_vars == <<vh_files, vh_threshold, vh_dist, vh_bags, vh_pc, uf>>
lock_vars == <<vhd_mutex, poisoned, req>>
web_vars == <<db_mutex, rf_pc, rf_rows, allow_preview, lock_vars>>
pipe_vars == <<pl_kind, pl_pc, pl_result, commit_batchsize, pl_input, pl_outcome,
               pl_todo, pl_chan, pl_buf, pl_commits>>
rc_vars == <<rc_pc, complete_filelist, clean_unfound, rc_removed, rc_results,
             rc_prev_outcome>>
ext_vars == <<web_vars, pipe_vars, rc_vars>>
vars == <<store_vars, exact_vars, video_vars, ext_vars>>

(***************************************************************************)
(* Bounds of the model.                                                    *)
(***************************************************************************)
MaxId == 3          \* inserts stop once the next rowid would exceed MaxId
MaxBatch == 2       \* longest batch handed to a batch insert
MaxExFiles == 3     \* longest list handed to find_similarities
MaxVhFiles == 3     \* longest list handed to find_similar_files

Max(S) == CHOOSE x \in S : \A y \in S : y <= x
Min(S) == CHOOSE x \in S : \A y \in S : x <= y

SeqsUpTo(S, n) == UNION {[1..k -> S] : k \in 0..n}

\* The elements of a finite set of records with distinct ids, by ascending id.
RECURSIVE SortById(_)
SortById(rows) ==
    IF rows = {} THEN <<>>
    ELSE LET m == CHOOSE r \in rows : \A q \in rows : r.id <= q.id
         IN  <<m>> \o SortById(rows \ {m})

(***************************************************************************)
(* Paths are strings of characters; the SQL of videohash.rs looks at       *)
(* their last three characters.                                            *)
(***************************************************************************)
PathA == <<"/", "a", ".", "M", "p", "4">>     \* /a.Mp4
PathC == <<"/", "c", ".", "j", "p", "g">>     \* /c.jpg
PathD == <<"/", "d", "m", "k", "v">>          \* /dmkv   (no extension)
Paths == {PathA, PathC, PathD}

\* Path::to_string_lossy: a byte that is no valid UTF-8 becomes U+FFFD.
InvalidBytes == {"\\xff", "\\xfe"}
to_string_lossy(path) ==
    [i \in DOMAIN path |-> IF path[i] \in InvalidBytes THEN "U+FFFD" ELSE path[i]]

\* Two file contents: (digest, size).  The tests insert 4-byte digests.
Contents == {[digest |-> <<0, 1, 2, 3>>, size |-> 1],
             [digest |-> <<0, 1, 2, 4>>, size |-> 2]}
\* FileDigest values handed to the Store; the Store ignores their id (-1 in
\* _create_filedigest).
FileDigests == {[id |-> -1, path |-> p, digest |-> c.digest, size |-> c.size] :
                    p \in Paths, c \in Contents}
\* What _create_filedigest yields for a path: the content the disk holds there.
DiskContent(path) ==
    IF path = PathC THEN [digest |-> <<0, 1, 2, 4>>, size |-> 2]
    ELSE [digest |-> <<0, 1, 2, 3>>, size |-> 1]
DiskFileDigests ==
    {f \in FileDigests : [digest |-> f.digest, size |-> f.size] = DiskContent(f.path)}

\* VideoHash values handed to insert_many_videohashes (id, histogram).
StoreHistograms == {<<255, 0, 255, 0>>}
VideoHashes == {[id |-> i, histogram |-> h] : i \in 1..MaxId, h \in StoreHistograms}

(***************************************************************************)
(* SQLite.  An INTEGER PRIMARY KEY column that is given no value takes     *)
(* the largest rowid of the table plus one (1 for an empty table).         *)
(***************************************************************************)
\* The paths a relation file_digests holds.
PathsOf(table) == {r.path : r \in table}

NextRowid(table) == IF table = {} THEN 1 ELSE Max({r.id : r \in table}) + 1

\* The INSERT of sql_insert_file on a relation declared without UNIQUE(path).
sql_insert_file_unchecked(table, file) ==
    [cnt |-> 1,
     table |-> table \cup {[id |-> NextRowid(table), path |-> to_string_lossy(file.path),
                            digest |-> file.digest, size |-> file.size]}]

\* INSERT OR IGNORE INTO file_digests (path, digest, size): a row whose path
\* breaks UNIQUE(path) is skipped and the statement reports 0 changes.
sql_insert_file(table, file) ==
    IF \E r \in table : r.path = to_string_lossy(file.path)
    THEN [cnt |-> 0, table |-> table]
    ELSE [cnt |-> 1,
          table |-> table \cup {[id |-> NextRowid(table),
                                 path |-> to_string_lossy(file.path),
                                 digest |-> file.digest, size |-> file.size]}]

\* Database::insert_filedigest: INSERT OR REPLACE in place of INSERT OR IGNORE.
insert_filedigest_replace(table, file) ==
    LET kept == {r \in table : r.path # to_string_lossy(file.path)}
    IN  [ok |-> TRUE, err |-> "",
         table |-> kept \cup {[id |-> NextRowid(table),
                               path |-> to_string_lossy(file.path),
                               digest |-> file.digest, size |-> file.size]}]

\* Database::insert_filedigest
insert_filedigest(table, file) ==
    LET r == sql_insert_file(table, file)
    IN  IF r.cnt = 0
        THEN [ok |-> FALSE, err |-> "IgnoredInsert", table |-> table]
        ELSE [ok |-> TRUE, err |-> "", table |-> r.table]

\* The loop of insert_many_filedigests inside the transaction, from row k on.
\* fail_at = k: the k-th execute(), or with k = Len(files) + 1 the commit,
\* fails with an error of the storage layer; 0: none does.
RECURSIVE tx_insert_files(_, _, _, _)
tx_insert_files(table, files, k, fail_at) ==
    IF k > Len(files) THEN [ok |-> TRUE, err |-> "", table |-> table]
    ELSE IF fail_at = k THEN [ok |-> FALSE, err |-> "StoreError", table |-> table]
    ELSE LET r == sql_insert_file(table, files[k])
         IN  IF r.cnt = 0
             THEN [ok |-> FALSE, err |-> "IgnoredInsert", table |-> r.table]
             ELSE tx_insert_files(r.table, files, k + 1, fail_at)

\* insert_many_filedigests with every statement in autocommit mode.
insert_many_filedigests_autocommit(table, files, fail_at) ==
    LET r == tx_insert_files(table, files, 1, fail_at)
    IN  IF r.ok /\ fail_at = Len(files) + 1
        THEN [ok |-> FALSE, err |-> "StoreError", table |-> r.table]
        ELSE r

\* Database::insert_many_filedigests: a Transaction dropped without commit()
\* rolls back.
insert_many_filedigests(table, files, fail_at) ==
    LET r == tx_insert_files(table, files, 1, fail_at)
    IN  IF r.ok /\ fail_at # Len(files) + 1
        THEN [ok |-> TRUE, err |-> "", table |-> r.table]
        ELSE [ok |-> FALSE, err |-> IF r.ok THEN "StoreError" ELSE r.err,
              table |-> table]

\* Database::get_all_filedigests with ORDER BY id DESC.
RECURSIVE get_all_filedigests_desc(_)
get_all_filedigests_desc(table) ==
    IF table = {} THEN <<>>
    ELSE LET m == CHOOSE r \in table : \A q \in table : q.id <= r.id
         IN  <<m>> \o get_all_filedigests_desc(table \ {m})

\* Database::get_all_filedigests: a table scan, in rowid order.
get_all_filedigests(table) == SortById(table)

\* Database::lookup_filedigest: query_row fails when no row has the id.
lookup_filedigest(table, file_id) ==
    IF \E r \in table : r.id = file_id
    THEN [ok |-> TRUE, err |-> "", row |-> CHOOSE r \in table : r.id = file_id]
    ELSE [ok |-> FALSE, err |-> "QueryReturnedNoRows", row |-> <<>>]

\* Database::delete_filedigest with WHERE id <= ?1.
delete_filedigest_upto(table, file_id) ==
    [ok |-> TRUE, err |-> "",
     cnt |-> Cardinality({r \in table : r.id <= file_id}),
     table |-> {r \in table : r.id > file_id}]

\* Database::delete_filedigest: DELETE FROM file_digests WHERE id = ?1; the
\* statement names no other relation.
delete_filedigest(table, file_id) ==
    [ok |-> TRUE, err |-> "",
     cnt |-> Cardinality({r \in table : r.id = file_id}),
     table |-> {r \in table : r.id # file_id}]

\* Database::rename_file with UPDATE OR REPLACE: the row that holds new_path
\* is deleted to make room.
rename_file_or_replace(table, file_id, new_path) ==
    IF \E r \in table : r.id = file_id
    THEN [ok |-> TRUE, err |-> "",
          table |-> {IF r.id = file_id THEN [r EXCEPT !.path = new_path] ELSE r :
                         r \in {q \in table : q.id = file_id \/ q.path # new_path}}]
    ELSE [ok |-> TRUE, err |-> "", table |-> table]

\* Database::rename_file: UPDATE file_digests SET path = ?1 WHERE id = ?2.  The
\* count of updated rows is dropped, so an unknown id is Ok(()).
rename_file(table, file_id, new_path) ==
    IF \E r \in table : r.id = file_id
       /\ \E q \in table : q.id # file_id /\ q.path = new_path
    THEN [ok |-> FALSE, err |-> "StoreError", table |-> table]
    ELSE [ok |-> TRUE, err |-> "",
          table |-> {IF r.id = file_id THEN [r EXCEPT !.path = new_path] ELSE r :
                         r \in table}]

(***************************************************************************)
(* Relation video_hash (id INTEGER PRIMARY KEY, histogram BLOB).  No       *)
(* statement of the program declares a foreign key or deletes from it.     *)
(***************************************************************************)
SqlLowerMap == [A |-> "a", V |-> "v", I |-> "i", M |-> "m", P |-> "p", K |-> "k",
                W |-> "w", F |-> "f", L |-> "l", J |-> "j", G |-> "g"]
\* SQL lower(): ASCII letters to lower case.
sql_lower(s) ==
    [i \in DOMAIN s |-> IF s[i] \in DOMAIN SqlLowerMap THEN SqlLowerMap[s[i]] ELSE s[i]]
\* SQL substr(path, -3): the last three characters (all of a shorter string).
sql_substr_last3(s) == SubSeq(s, IF Len(s) > 3 THEN Len(s) - 2 ELSE 1, Len(s))

VideoExtensions == {<<"m", "p", "4">>, <<"a", "v", "i">>, <<"m", "k", "v">>,
                    <<"w", "m", "v">>, <<"f", "l", "v">>}

\* Database::get_files_without_videohash: prepare() fails when the relation
\* video_hash is missing.
get_files_without_videohash(files, hashes, exists) ==
    IF ~exists THEN [ok |-> FALSE, err |-> "StoreError", rows |-> <<>>]
    ELSE LET sel == {r \in files :
                        /\ r.id \notin {h.id : h \in hashes}
                        /\ sql_lower(sql_substr_last3(r.path)) \in VideoExtensions}
             srt == SortById(sel)
         IN  [ok |-> TRUE, err |-> "",
              rows |-> [i \in DOMAIN srt |-> <<srt[i].id, srt[i].path, srt[i].size>>]]

\* INSERT OR IGNORE INTO video_hash (id, histogram): a row whose id breaks the
\* primary key is skipped and the statement reports 0 changes.
sql_insert_hash(hashes, h) ==
    IF \E r \in hashes : r.id = h.id
    THEN [cnt |-> 0, table |-> hashes]
    ELSE [cnt |-> 1, table |-> hashes \cup {[id |-> h.id, histogram |-> h.histogram]}]

RECURSIVE tx_insert_hashes(_, _, _, _)
tx_insert_hashes(table, hashes, k, fail_at) ==
    IF k > Len(hashes) THEN [ok |-> TRUE, err |-> "", table |-> table]
    ELSE IF fail_at = k THEN [ok |-> FALSE, err |-> "StoreError", table |-> table]
    ELSE LET r == sql_insert_hash(table, hashes[k])
         IN  IF r.cnt = 0
             THEN [ok |-> FALSE, err |-> "IgnoredInsert", table |-> r.table]
             ELSE tx_insert_hashes(r.table, hashes, k + 1, fail_at)

\* Database::insert_many_videohashes
insert_many_videohashes(table, exists, hashes, fail_at) ==
    IF ~exists THEN [ok |-> FALSE, err |-> "StoreError", table |-> table]
    ELSE LET r == tx_insert_hashes(table, hashes, 1, fail_at)
         IN  IF r.ok /\ fail_at # Len(hashes) + 1
             THEN [ok |-> TRUE, err |-> "", table |-> r.table]
             ELSE [ok |-> FALSE, err |-> IF r.ok THEN "StoreError" ELSE r.err,
                   table |-> table]

\* Database::get_all_files_with_videohash: the join of the two relations.
get_all_files_with_videohash(files, hashes, exists) ==
    IF ~exists THEN [ok |-> FALSE, err |-> "StoreError", rows |-> <<>>]
    ELSE LET sel == {r \in files : r.id \in {h.id : h \in hashes}}
             srt == SortById(sel)
         IN  [ok |-> TRUE, err |-> "",
              rows |-> [i \in DOMAIN srt |->
                          [id |-> srt[i].id, path |-> srt[i].path, size |-> srt[i].size,
                           histogram |-> (CHOOSE h \in hashes : h.id = srt[i].id).histogram]]]

\* Database::new: with reset, DROP TABLE IF EXISTS file_digests and DROP TABLE
\* IF EXISTS video_histograms; then CREATE TABLE IF NOT EXISTS file_digests.
\* video_hash is named by neither statement.
database_new(files, hashes, exists, reset) ==
    [files |-> IF reset THEN {} ELSE files, hashes |-> hashes, exists |-> exists]

(***************************************************************************)
(* The Store under any sequence of its operations.                         *)
(***************************************************************************)
Call(op, ok, err, arg, ret) == [op |-> op, ok |-> ok, err |-> err, arg |-> arg, ret |-> ret]

\* A database file that Database::new(filepath, true) has just opened: it creates
\* file_digests; video_hash is there only if the file already held it.
StoreInit ==
    /\ file_digests = {}
    /\ video_hash = {}
    /\ video_hash_exists \in BOOLEAN
    /\ filelist = {}
    /\ last = Call("open", TRUE, "", TRUE, <<>>)

Open(reset) ==
    LET r == database_new(file_digests, video_hash, video_hash_exists, reset)
    IN  /\ file_digests' = r.files
        /\ video_hash' = r.hashes
        /\ video_hash_exists' = r.exists
        /\ filelist' = {}
        /\ last' = Call("open", TRUE, "", reset, <<>>)
        /\ UNCHANGED <<exact_vars, video_vars, ext_vars>>

InsertFile(file) ==
    /\ NextRowid(file_digests) <= MaxId
    /\ LET r == insert_filedigest(file_digests, file)
       IN  /\ file_digests' = r.table
           /\ last' = Call("insert_file", r.ok, r.err, file, <<>>)
    /\ UNCHANGED <<video_hash, video_hash_exists, filelist, exact_vars, video_vars, ext_vars>>

InsertFilesBatch(files, fail_at) ==
    /\ NextRowid(file_digests) + Len(files) - 1 <= MaxId
    /\ LET r == insert_many_filedigests(file_digests, files, fail_at)
       IN  /\ file_digests' = r.table
           /\ last' = Call("insert_files_batch", r.ok, r.err, files, <<>>)
    /\ UNCHANGED <<video_hash, video_hash_exists, filelist, exact_vars, video_vars, ext_vars>>

ListFiles ==
    /\ last' = Call("list_files", TRUE, "", <<>>, get_all_filedigests(file_digests))
    /\ UNCHANGED <<file_digests, video_hash, video_hash_exists, filelist, exact_vars, video_vars, ext_vars>>

LookupFile(file_id) ==
    /\ LET r == lookup_filedigest(file_digests, file_id)
       IN  last' = Call("lookup_file", r.ok, r.err, file_id, r.row)
    /\ UNCHANGED <<file_digests, video_hash, video_hash_exists, filelist, exact_vars, video_vars, ext_vars>>

DeleteFile(file_id) ==
    /\ LET r == delete_filedigest(file_digests, file_id)
       IN  /\ file_digests' = r.table
           /\ last' = Call("delete_file", r.ok, r.err, file_id, r.cnt)
    /\ UNCHANGED <<video_hash, video_hash_exists, filelist, exact_vars, video_vars, ext_vars>>

RenameFile(file_id, new_path) ==
    /\ LET r == rename_file(file_digests, file_id, new_path)
       IN  /\ file_digests' = r.table
           /\ last' = Call("rename_file", r.ok, r.err, <<file_id, new_path>>, <<>>)
    /\ UNCHANGED <<video_hash, video_hash_exists, filelist, exact_vars, video_vars, ext_vars>>

\* update_hashes, line 205: the list of files to hash, read under the lock.
ListVideosMissingHistogram ==
    /\ LET r == get_files_without_videohash(file_digests, video_hash, video_hash_exists)
       IN  /\ filelist' = {r.rows[i][1] : i \in DOMAIN r.rows}
           /\ last' = Call("list_videos_missing_histogram", r.ok, r.err, <<>>, r.rows)
    /\ UNCHANGED <<file_digests, video_hash, video_hash_exists, exact_vars, video_vars, ext_vars>>

\* update_hashes, lines 238-252: the consumer commits the VideoHashes it has
\* received, each for an id of the list; an error ends update_hashes.
InsertHistogramsBatch(hashes, fail_at) ==
    /\ hashes # <<>>
    /\ \A k \in DOMAIN hashes : hashes[k].id \in filelist
    /\ LET r == insert_many_videohashes(video_hash, video_hash_exists, hashes, fail_at)
       IN  /\ video_hash' = r.table
           /\ filelist' = IF r.ok THEN filelist \ {hashes[k].id : k \in DOMAIN hashes}
                           ELSE {}
           /\ last' = Call("insert_histograms_batch", r.ok, r.err, Len(hashes), <<>>)
    /\ UNCHANGED <<file_digests, video_hash_exists, exact_vars, video_vars, ext_vars>>

ListVideosWithHistogram ==
    /\ LET r == get_all_files_with_videohash(file_digests, video_hash, video_hash_exists)
       IN  last' = Call("list_videos_with_histogram", r.ok, r.err, <<>>, r.rows)
    /\ UNCHANGED <<file_digests, video_hash, video_hash_exists, filelist, exact_vars, video_vars, ext_vars>>

\* Batches of FileDigests (process_filelist builds them from what the disk holds
\* at each path) and batches of VideoHashes (update_hashes builds them with one
\* record per listed id).
FileBatches == SeqsUpTo(DiskFileDigests, MaxBatch)
HashBatches == {b \in SeqsUpTo(VideoHashes, MaxBatch) :
                    \A i, j \in DOMAIN b : b[i].id = b[j].id => i = j}

FilesNext ==
    \/ \E reset \in BOOLEAN : Open(reset)
    \/ \E file \in FileDigests : InsertFile(file)
    \/ \E files \in FileBatches :
          \E fail_at \in 0..(Len(files) + 1) : InsertFilesBatch(files, fail_at)
    \/ ListFiles
    \/ \E file_id \in 1..MaxId : LookupFile(file_id)
    \/ \E file_id \in 1..MaxId : DeleteFile(file_id)
    \/ \E file_id \in 1..MaxId, new_path \in Paths : RenameFile(file_id, new_path)

HistogramsNext ==
    \/ \E hashes \in HashBatches :
          \E fail_at \in 0..(Len(hashes) + 1) : InsertHistogramsBatch(hashes, fail_at)
    \/ ListVideosMissingHistogram
    \/ ListVideosWithHistogram

StoreNext == FilesNext \/ HistogramsNext

ExactIdle == ex_files = <<>> /\ ex_result = {} /\ ex_pc = "idle"
WebIdle ==
    /\ db_mutex = "free" /\ rf_pc = "idle" /\ rf_rows = <<>>
    /\ allow_preview = FALSE
    /\ vhd_mutex = "free" /\ poisoned = {} /\ req = <<>>
PipeIdle ==
    /\ pl_kind = "none" /\ pl_pc = "idle" /\ pl_result = "none"
    /\ commit_batchsize = 1 /\ pl_input = {} /\ pl_outcome = <<>>
    /\ pl_todo = {} /\ pl_chan = <<>> /\ pl_buf = <<>> /\ pl_commits = <<>>
ReconcileIdle ==
    /\ rc_pc = "idle" /\ complete_filelist = {} /\ clean_unfound = FALSE
    /\ rc_removed = {} /\ rc_results = <<>> /\ rc_prev_outcome = <<>>
ExtIdle == WebIdle /\ PipeIdle /\ ReconcileIdle

VideoIdle ==
    /\ vh_files = <<>> /\ vh_threshold = 0 /\ vh_dist = <<>> /\ vh_bags = {}
    /\ vh_pc = "idle" /\ uf = <<>>

Init == StoreInit /\ ExactIdle /\ VideoIdle /\ ExtIdle
Next == StoreNext
Spec == Init /\ [][Next]_vars

\* The relation file_digests alone, in a database file the program created.
InitFiles == StoreInit /\ ~video_hash_exists /\ ExactIdle /\ VideoIdle /\ ExtIdle
NextFiles == FilesNext
SpecFiles == InitFiles /\ [][NextFiles]_vars

(***************************************************************************)
(* Exact Clusterer: similarities.rs, find_similarities.                    *)
(***************************************************************************)
\* FileDigests as find_similarities reads them (id, digest), with distinct ids.
\* Digests longer than the 4-byte prefix: two of them share it.
ExDigests == {<<0, 1, 2, 3, 0>>, <<0, 1, 2, 3, 1>>, <<1, 1, 2, 4, 0>>}
ExRecords == {[id |-> i, digest |-> d] : i \in 1..MaxExFiles, d \in ExDigests}
ExInputs == {f \in SeqsUpTo(ExRecords, MaxExFiles) :
                \A i, j \in DOMAIN f : f[i].id = f[j].id => i = j}

\* Vec::sort_unstable on a list of ids.
RECURSIVE sort_unstable(_)
sort_unstable(ids) ==
    IF ids = <<>> THEN <<>>
    ELSE LET m == Min({ids[k] : k \in DOMAIN ids})
             at == Min({k \in DOMAIN ids : ids[k] = m})
         IN  <<m>> \o sort_unstable(SubSeq(ids, 1, at - 1) \o SubSeq(ids, at + 1, Len(ids)))

\* file.digest[0..4]
lookup_value(digest) == SubSeq(digest, 1, 4)

\* The loop body of find_similarities with bags matched on the prefix alone.
find_similarities_step_prefix(map, file) ==
    LET key == lookup_value(file.digest)
        candidate_bags == IF key \in DOMAIN map THEN map[key] ELSE <<>>
        is_inserted == candidate_bags # <<>>
        pushed == [k \in DOMAIN candidate_bags |->
                      [candidate_bags[k] EXCEPT !.id_list = Append(@, file.id)]]
        bags == IF is_inserted THEN pushed
                ELSE Append(candidate_bags, [id_list |-> <<file.id>>, digest |-> file.digest])
    IN  [k \in DOMAIN map \cup {key} |-> IF k = key THEN bags ELSE map[k]]

\* The loop body of find_similarities (lines 25-46): the bags of the file's
\* 4-byte prefix are scanned for its digest; the id joins the bag that has it,
\* or a new bag is pushed.
find_similarities_step(map, file) ==
    LET key == lookup_value(file.digest)
        candidate_bags == IF key \in DOMAIN map THEN map[key] ELSE <<>>
        is_inserted == \E k \in DOMAIN candidate_bags :
                           candidate_bags[k].digest = file.digest
        pushed == [k \in DOMAIN candidate_bags |->
                      IF candidate_bags[k].digest = file.digest
                      THEN [candidate_bags[k] EXCEPT !.id_list = Append(@, file.id)]
                      ELSE candidate_bags[k]]
        bags == IF is_inserted THEN pushed
                ELSE Append(candidate_bags, [id_list |-> <<file.id>>, digest |-> file.digest])
    IN  [k \in DOMAIN map \cup {key} |-> IF k = key THEN bags ELSE map[k]]

RECURSIVE find_similarities_map(_, _, _)
find_similarities_map(map, files, k) ==
    IF k > Len(files) THEN map
    ELSE find_similarities_map(find_similarities_step(map, files[k]), files, k + 1)

\* find_similarities: the id lists, sorted, of the bags with more than one id.
find_similarities(files) ==
    LET map == find_similarities_map(<<>>, files, 1)
    IN  UNION {{sort_unstable(map[key][b].id_list) :
                   b \in {c \in DOMAIN map[key] : Len(map[key][c].id_list) > 1}} :
               key \in DOMAIN map}

ExactInit == ex_files \in ExInputs /\ ex_result = {} /\ ex_pc = "start"

FindSimilarities ==
    /\ ex_pc = "start"
    /\ ex_result' = find_similarities(ex_files)
    /\ ex_pc' = "done"
    /\ UNCHANGED <<ex_files, store_vars, video_vars, ext_vars>>

InitExact == StoreInit /\ ~video_hash_exists /\ ExactInit /\ VideoIdle /\ ExtIdle
NextExact == FindSimilarities
SpecExact == InitExact /\ [][NextExact]_vars

(***************************************************************************)
(* Perceptual Clusterer: videohash.rs, calculate_distances and             *)
(* find_similar_files, as VideoHashData (interface.rs) calls them.         *)
(* Indices run from 1 where the code's run from 0.  A histogram of         *)
(* calculate_color_histogram holds floor(255 * count / n) per bucket: its  *)
(* entries sum to at most 255, and it is all zero when no frame was        *)
(* decoded (n = 0).  The model keeps four buckets of the code's 64.        *)
(***************************************************************************)
Histograms ==
    {<<0, 0, 0, 0>>, <<255, 0, 0, 0>>, <<254, 1, 0, 0>>, <<253, 2, 0, 0>>,
     <<0, 0, 255, 0>>}

Thresholds == {0, 3, 256, 511}

\* VideoHashData.hashes: the list get_all_files_with_videohash returned; a
\* file is named by its position in the list.
VhInputs == SeqsUpTo([histogram : Histograms], MaxVhFiles)

\* The accumulator of l1_distance declared i8.
WrapI8(x) == ((x + 128) % 256) - 128

WrapI16(x) == ((x + 32768) % 65536) - 32768
AsU16(x) == x % 65536
Abs(x) == IF x < 0 THEN 0 - x ELSE x

RECURSIVE l1_distance_loop(_, _, _, _)
l1_distance_loop(a, b, i, dist) ==
    IF i > Len(a) THEN dist
    ELSE LET sum == WrapI16(dist + Abs(a[i] - b[i]))
         IN  \* the test has TLC work out the sum before the next turn
             IF sum \in Int THEN l1_distance_loop(a, b, i + 1, sum) ELSE sum

l1_distance(a, b) == AsU16(l1_distance_loop(a, b, 1, 0))

RECURSIVE calculate_distances_loop(_, _, _, _)
calculate_distances_loop(files, dist, i, j) ==
    IF i > Len(files) THEN dist
    ELSE IF j > Len(files)
         THEN calculate_distances_loop(files, dist, i + 1, i + 1)
    ELSE LET d == IF i # j
                  THEN l1_distance(files[i].histogram, files[j].histogram)
                  ELSE 0
             dist1 == [dist EXCEPT ![<<i, j>>] = d]
             dist2 == [dist1 EXCEPT ![<<j, i>>] = dist1[<<i, j>>]]
         IN  calculate_distances_loop(files, dist2, i, j + 1)

Zeros(n) == [p \in (1..n) \X (1..n) |-> 0]

\* calculate_distances without the line dist[[j, i]] = dist[[i, j]].
calculate_distances_upper_only(files) ==
    LET dist == calculate_distances_loop(files, Zeros(Len(files)), 1, 1)
    IN  [p \in DOMAIN dist |-> IF p[1] <= p[2] THEN dist[p] ELSE 0]

calculate_distances(files) ==
    calculate_distances_loop(files, Zeros(Len(files)), 1, 1)

\* _find returns the root and leaves parent changed: <<root, parent>>.
\* One turn of the loop of _find with the assignment to x left out.
_find_turn_in_place(x, parent) ==
    <<x, [parent EXCEPT ![x] = parent[parent[x]]]>>

\* One turn of "while parent[x] != x": tmp = x; x = parent[x];
\* parent[tmp] = parent[parent[x]].
_find_turn(x, parent) ==
    LET tmp == x
        x1 == parent[x]
    IN  <<x1, [parent EXCEPT ![tmp] = parent[parent[x1]]]>>

RECURSIVE _find_loop(_, _)
_find_loop(x, parent) ==
    IF parent[x] = x THEN <<x, parent>>
    ELSE LET turn == _find_turn(x, parent)
         IN  _find_loop(turn[1], turn[2])

_find(y, parent) == _find_loop(y, parent)

_union(x, y, parent) ==
    LET fx == _find(x, parent)
        fy == _find(y, fx[2])
        x_root == fx[1]
        y_root == fy[1]
    IN  IF x_root = y_root THEN fy[2]
        ELSE [fy[2] EXCEPT ![x_root] = y_root]

all_zero(histogram) == \A k \in DOMAIN histogram : histogram[k] = 0

RECURSIVE union_loop(_, _, _, _, _, _)
union_loop(files, dist, threshold, parent, i, j) ==
    IF i > Len(files) THEN parent
    ELSE IF all_zero(files[i].histogram) \/ j > Len(files)
         THEN union_loop(files, dist, threshold, parent, i + 1, i + 1)
    ELSE LET parent1 == IF dist[<<i, j>>] < threshold
                        THEN _union(i, j, parent)
                        ELSE parent
         IN  union_loop(files, dist, threshold, parent1, i, j + 1)

\* filebags: root index -> the positions pushed for it, in list order.
RECURSIVE filebags_loop(_, _, _, _)
filebags_loop(files, parent, filebags, idx) ==
    IF idx > Len(files) THEN filebags
    ELSE LET f == _find(idx, parent)
             parent_idx == f[1]
             bag == IF parent_idx \in DOMAIN filebags
                    THEN filebags[parent_idx] ELSE <<>>
         IN  filebags_loop(files, f[2],
                 [k \in DOMAIN filebags \cup {parent_idx} |->
                     IF k = parent_idx THEN Append(bag, idx) ELSE filebags[k]],
                 idx + 1)

find_similar_files(files, dist, threshold) ==
    LET parent0 == [i \in 1..Len(files) |-> i]
        parent == union_loop(files, dist, threshold, parent0, 1, 1)
        filebags == filebags_loop(files, parent, <<>>, 1)
    IN  {filebags[k] : k \in {r \in DOMAIN filebags : Len(filebags[r]) > 1}}

VideoInit ==
    /\ vh_files \in VhInputs /\ vh_threshold = 0 /\ vh_dist = <<>>
    /\ vh_bags = {} /\ vh_pc = "start" /\ uf = <<>>

\* VideoHashData::refresh, after the list was read.
CalculateDistances ==
    /\ vh_pc = "start"
    /\ vh_dist' = calculate_distances(vh_files)
    /\ vh_pc' = "distances"
    /\ UNCHANGED <<vh_files, vh_threshold, vh_bags, uf, store_vars, exact_vars, ext_vars>>

\* VideoHashData::handle_request up to the call of find_similar_files.
FindSimilarFiles(threshold) ==
    /\ vh_pc = "distances"
    /\ vh_threshold' = threshold
    /\ vh_bags' = find_similar_files(vh_files, vh_dist, threshold)
    /\ vh_pc' = "done"
    /\ UNCHANGED <<vh_files, vh_dist, uf, store_vars, exact_vars, ext_vars>>

InitVideo == StoreInit /\ ~video_hash_exists /\ ExactIdle /\ VideoInit /\ ExtIdle
NextVideo ==
    \/ CalculateDistances
    \/ \E threshold \in Thresholds : FindSimilarFiles(threshold)
SpecVideo == InitVideo /\ [][NextVideo]_vars

(***************************************************************************)
(* The query server: interface.rs, start_web_interface.  Every handler     *)
(* locks the Mutex<Database> for its whole body, so a handler is one       *)
(* step taken while the mutex is free; VideoHashData::refresh is followed  *)
(* through the SELECT it runs while it holds the mutex.  The histogram     *)
(* indexer (update_hashes) takes the same mutex for its list and for each  *)
(* commit.                                                                 *)
(***************************************************************************)
MaxWebId == 2       \* the query server's Store holds rowids up to MaxWebId

\* db_mutex.lock(): the caller holds the mutex.
mutex_lock_skipped(holder) == "free"

mutex_lock(holder) == holder

\* What the file system answers for a path: the file is there, is not, or the
\* call fails.
FsOutcomes == {"exists", "missing", "error"}

\* delete_file without the call of db.delete_filedigest(id).
delete_file_disk_only(table, id, fs) ==
    LET file == lookup_filedigest(table, id)
    IN  IF ~file.ok THEN [ok |-> FALSE, status |-> file.err, table |-> table]
        ELSE IF fs = "error" THEN [ok |-> FALSE, status |-> "IoError", table |-> table]
        ELSE [ok |-> TRUE,
              status |-> IF fs = "exists" THEN "success" ELSE "does-not-exist",
              table |-> table]

\* delete_file (handle_remove_request)
delete_file(table, id, fs) ==
    LET file == lookup_filedigest(table, id)
    IN  IF ~file.ok THEN [ok |-> FALSE, status |-> file.err, table |-> table]
        ELSE IF fs = "error" THEN [ok |-> FALSE, status |-> "IoError", table |-> table]
        ELSE [ok |-> TRUE,
              status |-> IF fs = "exists" THEN "success" ELSE "does-not-exist",
              table |-> delete_filedigest(table, id).table]

\* rename_file (handle_rename_request)
handle_rename_file(table, id, new_name, fs) ==
    LET file == lookup_filedigest(table, id)
    IN  IF ~file.ok THEN [ok |-> FALSE, status |-> file.err, table |-> table]
        ELSE IF fs = "error" THEN [ok |-> FALSE, status |-> "IoError", table |-> table]
        ELSE LET r == rename_file(table, id, new_name)
             IN  IF ~r.ok THEN [ok |-> FALSE, status |-> r.err, table |-> table]
                 ELSE [ok |-> TRUE,
                       status |-> IF fs = "exists" THEN "success" ELSE "does-not-exist",
                       table |-> r.table]

\* handle_preview_request: the response carries the bytes of the file at the
\* path of the row.
handle_preview_request(table, file_id, fs) ==
    LET file == lookup_filedigest(table, file_id)
    IN  IF ~file.ok THEN [ok |-> FALSE, status |-> file.err, body |-> <<>>]
        ELSE IF fs # "exists" THEN [ok |-> FALSE, status |-> "IoError", body |-> <<>>]
        ELSE [ok |-> TRUE, status |-> "", body |-> <<"bytes", file.row.path>>]

\* The SELECT of get_all_files_with_videohash, second half: the rows of
\* file_digests read so far are matched with video_hash on id.
join_video_hash(rows, hashes) ==
    LET sel == SelectSeq(rows, LAMBDA r : \E h \in hashes : h.id = r.id)
    IN  [i \in DOMAIN sel |->
            [id |-> sel[i].id, path |-> sel[i].path, size |-> sel[i].size,
             histogram |-> (CHOOSE h \in hashes : h.id = sel[i].id).histogram]]

WebInit ==
    /\ db_mutex = "free" /\ rf_pc = "idle" /\ rf_rows = <<>>
    /\ allow_preview \in BOOLEAN
    /\ vhd_mutex = "free" /\ poisoned = {} /\ req = <<>>

\* The handlers below change the Store; their responses go to the client and
\* are not kept.  The digest indexer commits a file.
WebIndexFile(file) ==
    /\ db_mutex = "free"
    /\ NextRowid(file_digests) <= MaxWebId
    /\ LET r == insert_many_filedigests(file_digests, <<file>>, 0)
       IN  file_digests' = r.table
    /\ UNCHANGED <<video_hash, video_hash_exists, filelist, last, exact_vars, video_vars, ext_vars>>

\* A /remove that also takes the file out of the VideoHashData.
WebRemoveFromView(id, fs) ==
    /\ db_mutex = "free"
    /\ LET r == delete_file(file_digests, id, fs)
       IN  file_digests' = r.table
    /\ vh_files' = SelectSeq(vh_files, LAMBDA f : f.id # id)
    /\ vh_dist' = calculate_distances(vh_files')
    /\ UNCHANGED <<video_hash, video_hash_exists, filelist, last, exact_vars, vh_threshold,
                   vh_bags, vh_pc, uf, ext_vars>>

WebRemove(id, fs) ==
    /\ db_mutex = "free"
    /\ LET r == delete_file(file_digests, id, fs)
       IN  file_digests' = r.table
    /\ UNCHANGED <<video_hash, video_hash_exists, filelist, last, exact_vars, video_vars, ext_vars>>

WebRename(id, new_name, fs) ==
    /\ db_mutex = "free"
    /\ LET r == handle_rename_file(file_digests, id, new_name, fs)
       IN  file_digests' = r.table
    /\ UNCHANGED <<video_hash, video_hash_exists, filelist, last, exact_vars, video_vars, ext_vars>>

WebPreview(file_id, fs) ==
    /\ db_mutex = "free"
    /\ LET r == handle_preview_request(file_digests, file_id, fs)
       IN  last' = Call("preview", r.ok, r.status, file_id, r.body)
    /\ UNCHANGED <<file_digests, video_hash, video_hash_exists, filelist, exact_vars, video_vars, ext_vars>>

\* update_hashes, lines 196-202: the list of files to hash, read under the
\* mutex.
WebListVideos ==
    /\ db_mutex = "free"
    /\ LET r == get_files_without_videohash(file_digests, video_hash, video_hash_exists)
       IN  filelist' = {r.rows[i][1] : i \in DOMAIN r.rows}
    /\ UNCHANGED <<file_digests, video_hash, video_hash_exists, last, exact_vars, video_vars, ext_vars>>

\* update_hashes, lines 238-243: a batch of hashes of listed files is committed
\* under the mutex.
WebCommitHashes(hashes) ==
    /\ db_mutex = "free"
    /\ hashes # <<>>
    /\ \A k \in DOMAIN hashes : hashes[k].id \in filelist
    /\ LET r == insert_many_videohashes(video_hash, video_hash_exists, hashes, 0)
       IN  /\ video_hash' = r.table
           /\ filelist' = IF r.ok THEN filelist \ {hashes[k].id : k \in DOMAIN hashes}
                           ELSE {}
    /\ UNCHANGED <<file_digests, video_hash_exists, last, exact_vars, video_vars, ext_vars>>

RefreshLock ==
    /\ rf_pc = "idle" /\ db_mutex = "free"
    /\ db_mutex' = mutex_lock("refresh")
    /\ rf_pc' = "locked"
    /\ UNCHANGED <<rf_rows, allow_preview, lock_vars, store_vars, exact_vars, video_vars, pipe_vars,
                   rc_vars>>

RefreshReadFiles ==
    /\ rf_pc = "locked"
    /\ rf_rows' = SortById(file_digests)
    /\ rf_pc' = "files"
    /\ UNCHANGED <<db_mutex, allow_preview, lock_vars, store_vars, exact_vars, video_vars, pipe_vars,
                   rc_vars>>

RefreshJoin ==
    /\ rf_pc = "files"
    /\ rf_rows' = join_video_hash(rf_rows, video_hash)
    /\ rf_pc' = "joined"
    /\ UNCHANGED <<db_mutex, allow_preview, lock_vars, store_vars, exact_vars, video_vars, pipe_vars,
                   rc_vars>>

\* self.hashes and self.distances are set and the guard is dropped.
RefreshDone ==
    /\ rf_pc = "joined"
    /\ vh_files' = rf_rows
    /\ vh_dist' = calculate_distances(rf_rows)
    /\ db_mutex' = "free"
    /\ rf_pc' = "idle"
    /\ rf_rows' = <<>>
    /\ UNCHANGED <<vh_threshold, vh_bags, vh_pc, uf, allow_preview, lock_vars, store_vars, exact_vars,
                   pipe_vars, rc_vars>>

\* The view and the handlers that change what it shows.
InitWeb ==
    /\ StoreInit /\ video_hash_exists /\ ExactIdle /\ VideoIdle /\ WebInit
    /\ PipeIdle /\ ReconcileIdle
    /\ ~allow_preview
NextWeb ==
    \/ \E file \in DiskFileDigests : WebIndexFile(file)
    \/ \E id \in 1..MaxWebId, fs \in FsOutcomes : WebRemove(id, fs)
    \/ \E id \in 1..MaxWebId, new_name \in Paths, fs \in FsOutcomes :
          WebRename(id, new_name, fs)
    \/ WebListVideos
    \/ \E hashes \in HashBatches : WebCommitHashes(hashes)
    \/ RefreshLock
    \/ RefreshReadFiles
    \/ RefreshJoin
    \/ RefreshDone
SpecWeb == InitWeb /\ [][NextWeb]_vars

\* The preview route, with and without --allow-preview.
InitPreview ==
    /\ StoreInit /\ video_hash_exists /\ ExactIdle /\ VideoIdle /\ WebInit
    /\ PipeIdle /\ ReconcileIdle
NextPreview ==
    \/ \E file \in DiskFileDigests : WebIndexFile(file)
    \/ \E id \in 1..MaxWebId, fs \in FsOutcomes : WebRemove(id, fs)
    \/ \E file_id \in 1..MaxWebId, fs \in FsOutcomes : WebPreview(file_id, fs)
SpecPreview == InitPreview /\ [][NextPreview]_vars

(***************************************************************************)
(* The pipelines: process_filelist (filehashing.rs) and update_hashes      *)
(* (videohash.rs).  Producers on the rayon pool send one message per item  *)
(* of the list, in any order, through an mpsc channel; the consumer        *)
(* buffers the Ok records and commits the buffer when it holds             *)
(* commit_batchsize of them, and once more after the channel has closed.   *)
(* A panic on the pool reaches no panic handler (none is registered), and  *)
(* rayon then aborts the process.                                          *)
(***************************************************************************)
MaxSeed == 2        \* rows inserted into the Store before a pipeline starts

\* Stores left by earlier runs: files inserted one after the other, with the
\* content the disk held at that time, and the first of them removed again.
RECURSIVE insert_all(_, _, _)
insert_all(table, files, k) ==
    IF k > Len(files) THEN table
    ELSE insert_all(insert_filedigest(table, files[k]).table, files, k + 1)

SeedStores ==
    LET grown == {insert_all({}, s, 1) : s \in SeqsUpTo(FileDigests, MaxSeed)}
    IN  grown \cup {delete_filedigest(t, 1).table : t \in grown}

\* What happens to one item in its producer.  get_hash: File::open fails (Err),
\* read fails and is unwrapped (panic); _create_filedigest: metadata fails
\* (Err).  _create_hash: Video::new or a conversion fails (Err), next_packet or
\* frame is unwrapped (panic).
DigestOutcomes == {"ok", "open_err", "read_err", "stat_err"}
HashOutcomes == {"ok", "err", "decode_panic"}
Panics == {"read_err", "decode_panic"}

\* _create_filedigest on a file that can be read
_create_filedigest(path) ==
    [id |-> -1, path |-> path, digest |-> DiskContent(path).digest,
     size |-> DiskContent(path).size]

\* _create_hash on a listed row <<id, path, size>> that can be decoded
_create_hash(row) == [id |-> row[1], histogram |-> <<255, 0, 255, 0>>]

\* The items of a list: paths (process_filelist) or rows <<id, path, size>> of
\* get_files_without_videohash (update_hashes).
PipeItems == Paths \cup ((1..(MaxSeed + 1)) \X Paths \X {1, 2})

Outcomes(kind) == IF kind = "digest" THEN DigestOutcomes ELSE HashOutcomes

\* The message a producer sends for an item.
producer_message(kind, item, outcome) ==
    IF outcome # "ok" THEN [ok |-> FALSE, rec |-> <<>>]
    ELSE [ok |-> TRUE,
          rec |-> IF kind = "digest" THEN _create_filedigest(item)
                  ELSE _create_hash(item)]

\* db.insert_many_filedigests(&filedigests) / db.insert_many_videohashes(&hashes)
pipeline_commit(kind, files, hashes, exists, buf, fail_at) ==
    IF kind = "digest"
    THEN LET r == insert_many_filedigests(files, buf, fail_at)
         IN  [ok |-> r.ok, files |-> r.table, hashes |-> hashes]
    ELSE LET r == insert_many_videohashes(hashes, exists, buf, fail_at)
         IN  [ok |-> r.ok, files |-> files, hashes |-> r.table]

\* db.insert_many_...(&buf) with the error logged and the loop going on.
commit_error_ignored(ok) == [pc |-> "run", result |-> "none"]

\* db.insert_many_...(&buf)? : an Err is returned to the caller at once.
question_mark(ok) ==
    IF ok THEN [pc |-> "run", result |-> "none"]
    ELSE [pc |-> "returned", result |-> "err"]

\* A final flush that never finds a remainder.
has_remainder_never(buf) == FALSE

\* if filedigests.len() > 0
has_remainder(buf) == Len(buf) > 0

\* The test of the loop written with <= : a full buffer is kept.
buffer_is_short_or_full(buf, batchsize) == Len(buf) <= batchsize

\* if filedigests.len() < commit_batchsize { continue; }
buffer_is_short(buf, batchsize) == Len(buf) < batchsize

PipeStart ==
    /\ pl_result = "none" /\ pl_outcome = <<>>
    /\ pl_chan = <<>> /\ pl_buf = <<>> /\ pl_commits = <<>>
    /\ commit_batchsize \in 1..MaxBatch

\* process_filelist(db, filelist, commit_batchsize), as update_database calls
\* it: filelist holds paths the Store does not.
DigestPipelineInit ==
    /\ file_digests \in SeedStores /\ video_hash = {} /\ video_hash_exists = FALSE
    /\ filelist = {} /\ last = Call("open", TRUE, "", FALSE, <<>>)
    /\ pl_kind = "digest" /\ pl_pc = "run"
    /\ pl_input \in SUBSET (Paths \ PathsOf(file_digests))
    /\ pl_todo = pl_input
    /\ PipeStart

\* update_hashes(db_mutex, commit_batchsize)
HashPipelineInit ==
    /\ file_digests \in SeedStores /\ video_hash = {} /\ video_hash_exists = TRUE
    /\ filelist = {} /\ last = Call("open", TRUE, "", FALSE, <<>>)
    /\ pl_kind = "hash" /\ pl_pc = "list"
    /\ pl_input = {} /\ pl_todo = {}
    /\ PipeStart

\* update_hashes, line 205: the list, read under the mutex.
PipeList ==
    /\ pl_pc = "list"
    /\ LET r == get_files_without_videohash(file_digests, video_hash, video_hash_exists)
           rows == {r.rows[i] : i \in DOMAIN r.rows}
       IN  /\ pl_input' = rows
           /\ pl_todo' = rows
           /\ pl_pc' = IF r.ok THEN "run" ELSE "returned"
           /\ pl_result' = IF r.ok THEN "none" ELSE "err"
    /\ UNCHANGED <<pl_kind, commit_batchsize, pl_outcome, pl_chan, pl_buf, pl_commits,
                   store_vars, exact_vars, video_vars, web_vars, rc_vars>>

\* A producer finishes an item: it sends Ok(record) or Err(error), or panics.
Produce(item, outcome) ==
    /\ pl_pc = "run"
    /\ item \in pl_todo
    /\ outcome \in Outcomes(pl_kind)
    /\ pl_todo' = pl_todo \ {item}
    /\ pl_outcome' = [i \in DOMAIN pl_outcome \cup {item} |->
                         IF i = item THEN outcome ELSE pl_outcome[i]]
    /\ IF outcome \in Panics
       THEN pl_pc' = "aborted" /\ UNCHANGED pl_chan
       ELSE /\ pl_chan' = Append(pl_chan, producer_message(pl_kind, item, outcome))
            /\ UNCHANGED pl_pc
    /\ UNCHANGED <<pl_kind, pl_result, commit_batchsize, pl_input, pl_buf, pl_commits,
                   store_vars, exact_vars, video_vars, web_vars, rc_vars>>

\* One turn of "for digest in rx.iter()": push an Ok record, and commit the
\* buffer unless it is short.  fail_at as in insert_many_filedigests.
ConsumeMessage(fails) ==
    /\ pl_pc = "run"
    /\ pl_chan # <<>>
    /\ pl_chan' = Tail(pl_chan)
    /\ LET msg == Head(pl_chan)
           buf == IF msg.ok THEN Append(pl_buf, msg.rec) ELSE pl_buf
       IN  IF buffer_is_short(buf, commit_batchsize)
           THEN /\ ~fails
                /\ pl_buf' = buf
                /\ UNCHANGED <<pl_pc, pl_result, pl_commits, file_digests, video_hash>>
           ELSE LET r == pipeline_commit(pl_kind, file_digests, video_hash,
                                         video_hash_exists, buf,
                                         IF fails THEN Len(buf) + 1 ELSE 0)
                IN  /\ file_digests' = r.files
                    /\ video_hash' = r.hashes
                    /\ pl_commits' = Append(pl_commits,
                                        [n |-> Len(buf), at |-> "loop", ok |-> r.ok])
                    /\ pl_buf' = IF r.ok THEN <<>> ELSE buf
                    /\ pl_pc' = question_mark(r.ok).pc
                    /\ pl_result' = question_mark(r.ok).result
    /\ UNCHANGED <<pl_kind, commit_batchsize, pl_input, pl_outcome, pl_todo,
                   video_hash_exists, filelist, last, exact_vars, video_vars, web_vars, rc_vars>>

\* The channel has closed (every producer is done, nothing is in flight): the
\* loop ends, what the buffer holds is committed, and the function returns.
FinalFlush(fails) ==
    /\ pl_pc = "run"
    /\ pl_chan = <<>> /\ pl_todo = {}
    /\ IF has_remainder(pl_buf)
       THEN LET r == pipeline_commit(pl_kind, file_digests, video_hash,
                                     video_hash_exists, pl_buf,
                                     IF fails THEN Len(pl_buf) + 1 ELSE 0)
            IN  /\ file_digests' = r.files
                /\ video_hash' = r.hashes
                /\ pl_commits' = Append(pl_commits,
                                    [n |-> Len(pl_buf), at |-> "flush", ok |-> r.ok])
                /\ pl_result' = IF r.ok THEN "ok" ELSE "err"
       ELSE /\ ~fails
            /\ pl_result' = "ok"
            /\ UNCHANGED <<pl_commits, file_digests, video_hash>>
    /\ pl_pc' = "returned"
    /\ UNCHANGED <<pl_kind, commit_batchsize, pl_input, pl_outcome, pl_todo, pl_chan,
                   pl_buf, video_hash_exists, filelist, last, exact_vars, video_vars,
                   web_vars, rc_vars>>

\* The function has returned on a failed commit and dropped the receiver: the
\* next send of a producer fails, and expect("expected no send errors") panics.
ProducerSendFails ==
    /\ pl_pc = "returned"
    /\ pl_todo # {}
    /\ pl_pc' = "aborted"
    /\ UNCHANGED <<pl_kind, pl_result, commit_batchsize, pl_input, pl_outcome, pl_todo,
                   pl_chan, pl_buf, pl_commits, store_vars, exact_vars, video_vars,
                   web_vars, rc_vars>>

InitPipeline ==
    /\ DigestPipelineInit \/ HashPipelineInit
    /\ ExactIdle /\ VideoIdle /\ WebIdle /\ ReconcileIdle
NextPipeline ==
    \/ PipeList
    \/ \E outcome \in DigestOutcomes \cup HashOutcomes :
          \E item \in PipeItems : Produce(item, outcome)
    \/ \E fails \in BOOLEAN : ConsumeMessage(fails)
    \/ \E fails \in BOOLEAN : FinalFlush(fails)
    \/ ProducerSendFails
SpecPipeline == InitPipeline /\ [][NextPipeline]_vars

(***************************************************************************)
(* Reconciliation: main.rs, update_database.  The program runs it once     *)
(* per start; a later start finds the Store the earlier one left.          *)
(***************************************************************************)
MaxRuns == 2        \* runs of update_database on the same disk listing

\* remove_outdated_files with the test turned round.
remove_outdated_files_inverted(table, current_filelist) ==
    [table |-> {f \in table : f.path \notin current_filelist},
     removed |-> {f.path : f \in {g \in table : g.path \in current_filelist}}]

\* remove_outdated_files with no test: every row goes.
remove_outdated_files_all(table, current_filelist) ==
    [table |-> {}, removed |-> PathsOf(table)]

\* remove_outdated_files: the rows of get_all_filedigests whose path the
\* listing does not hold are deleted by id; "Removing <path>" is printed.
RECURSIVE remove_outdated_loop(_, _, _, _, _)
remove_outdated_loop(table, files_in_db, current_filelist, k, removed) ==
    IF k > Len(files_in_db) THEN [table |-> table, removed |-> removed]
    ELSE LET f == files_in_db[k]
         IN  IF f.path \notin current_filelist
             THEN remove_outdated_loop(delete_filedigest(table, f.id).table,
                                       files_in_db, current_filelist, k + 1,
                                       removed \cup {f.path})
             ELSE remove_outdated_loop(table, files_in_db, current_filelist,
                                       k + 1, removed)

remove_outdated_files(table, current_filelist) ==
    remove_outdated_loop(table, get_all_filedigests(table), current_filelist, 1, {})

\* filter_out_files_already_in_database that filters nothing.
filter_out_nothing(table, current_filelist) == current_filelist

\* filter_out_files_already_in_database
filter_out_files_already_in_database(table, current_filelist) ==
    LET files_in_db == get_all_filedigests(table)
        filepaths_in_db == {files_in_db[k].path : k \in DOMAIN files_in_db}
    IN  {f \in current_filelist : f \notin filepaths_in_db}

ReconcileInit ==
    /\ rc_pc = "start"
    /\ complete_filelist \in SUBSET Paths
    /\ clean_unfound \in BOOLEAN
    /\ rc_removed = {} /\ rc_results = <<>> /\ rc_prev_outcome = <<>>
    /\ file_digests \in SeedStores /\ video_hash = {} /\ video_hash_exists = FALSE
    /\ filelist = {} /\ last = Call("open", TRUE, "", FALSE, <<>>)
    /\ pl_kind = "digest" /\ pl_pc = "idle" /\ pl_input = {} /\ pl_todo = {}
    /\ PipeStart

\* update_database, lines 193-200: the listing is made; with clean_unfound
\* remove_outdated_files runs.
RemoveOutdated ==
    /\ rc_pc = "start"
    /\ LET r == IF clean_unfound
                THEN remove_outdated_files(file_digests, complete_filelist)
                ELSE [table |-> file_digests, removed |-> {}]
       IN  /\ file_digests' = r.table
           /\ rc_removed' = r.removed
    /\ rc_pc' = "filter"
    /\ UNCHANGED <<complete_filelist, clean_unfound, rc_results, rc_prev_outcome,
                   video_hash, video_hash_exists, filelist, last, exact_vars,
                   video_vars, web_vars, pipe_vars>>

\* update_database, lines 201-204: the unknown paths are handed to
\* process_filelist, whose producers start.
FilterAndStart ==
    /\ rc_pc = "filter"
    /\ LET unknown == filter_out_files_already_in_database(file_digests,
                                                           complete_filelist)
       IN  pl_input' = unknown /\ pl_todo' = unknown
    /\ pl_pc' = "run"
    /\ rc_pc' = "process"
    /\ UNCHANGED <<complete_filelist, clean_unfound, rc_removed, rc_results,
                   rc_prev_outcome, pl_kind, pl_result, commit_batchsize, pl_outcome,
                   pl_chan, pl_buf, pl_commits, store_vars, exact_vars, video_vars,
                   web_vars>>

\* update_database returns what process_filelist returned.
UpdateDatabaseReturns ==
    /\ rc_pc = "process"
    /\ pl_pc = "returned"
    /\ rc_results' = Append(rc_results, pl_result)
    /\ rc_pc' = "done"
    /\ UNCHANGED <<complete_filelist, clean_unfound, rc_removed, rc_prev_outcome,
                   store_vars, exact_vars, video_vars, web_vars, pipe_vars>>

\* The program is started again on the same directory with the same flags.
RunAgain ==
    /\ rc_pc = "done"
    /\ Len(rc_results) < MaxRuns
    /\ rc_pc' = "start"
    /\ rc_prev_outcome' = pl_outcome
    /\ pl_outcome' = <<>> /\ pl_result' = "none" /\ pl_pc' = "idle"
    /\ pl_input' = {} /\ pl_todo' = {} /\ pl_chan' = <<>> /\ pl_buf' = <<>>
    /\ pl_commits' = <<>>
    /\ rc_removed' = {}
    /\ UNCHANGED <<complete_filelist, clean_unfound, rc_results, pl_kind,
                   commit_batchsize, store_vars, exact_vars, video_vars, web_vars>>

InitReconcile == ReconcileInit /\ ExactIdle /\ VideoIdle /\ WebIdle
NextReconcile ==
    \/ RemoveOutdated
    \/ FilterAndStart
    \/ \E outcome \in DigestOutcomes : \E item \in Paths : Produce(item, outcome)
    \/ \E fails \in BOOLEAN : ConsumeMessage(fails)
    \/ \E fails \in BOOLEAN : FinalFlush(fails)
    \/ ProducerSendFails
    \/ UpdateDatabaseReturns
    \/ RunAgain
SpecReconcile == InitReconcile /\ [][NextReconcile]_vars

(***************************************************************************)
(* Claims about the Store.                                                 *)
(***************************************************************************)
\* C1: after any sequence of insert_file, insert_files_batch, rename_file and
\* delete_file calls, succeeding or failing, no two rows of file_digests have
\* the same path.
C1_PathUnique == \A r, q \in file_digests : r.path = q.path => r = q

\* A rename has just been refused because another row holds the new path.
C1_Witness ==
    /\ last.op = "rename_file" /\ ~last.ok
    /\ Cardinality(file_digests) >= 2

\* A record of a batch is visible in list_files.
VisibleIn(listing, f) ==
    \E k \in DOMAIN listing :
        /\ listing[k].path = to_string_lossy(f.path)
        /\ listing[k].digest = f.digest
        /\ listing[k].size = f.size

\* C2: insert_files_batch is all-or-nothing.  When it succeeds every record of
\* the batch is visible in list_files, one new row each; when it fails, on
\* whichever row, list_files is what it was before the call; the rows committed
\* before the call are unchanged in both cases.
C2_BatchAllOrNothing ==
    [][last'.op = "insert_files_batch" =>
        LET batch == last'.arg
            before == get_all_filedigests(file_digests)
            after == get_all_filedigests(file_digests')
        IN  IF last'.ok
            THEN /\ \A k \in DOMAIN batch : VisibleIn(after, batch[k])
                 /\ Len(after) = Len(before) + Len(batch)
                 /\ file_digests \subseteq file_digests'
            ELSE after = before]_vars

\* A batch of two has just failed on its second row, in a Store that holds rows:
\* its first row had been inserted inside the transaction, and is not visible.
C2_Witness ==
    /\ last.op = "insert_files_batch" /\ ~last.ok
    /\ Len(last.arg) >= 2
    /\ file_digests # {}
    /\ last.arg[1].path \notin PathsOf(file_digests)

\* C3: insert_file of a path that the Store already holds returns
\* IgnoredInsert and leaves every row as it was (id, path, digest, size), adding
\* none.
C3_DuplicateInsertIgnored ==
    [][(/\ last'.op = "insert_file"
        /\ to_string_lossy(last'.arg.path) \in PathsOf(file_digests))
       => (/\ ~last'.ok
           /\ last'.err = "IgnoredInsert"
           /\ file_digests' = file_digests)]_vars

\* A second insert of a path, with another digest, has just been ignored.
C3_Witness ==
    /\ last.op = "insert_file" /\ last.err = "IgnoredInsert"
    /\ \E r \in file_digests : r.path = last.arg.path /\ r.digest # last.arg.digest

\* C4: after open(path, reset = true) both relations exist and are empty.
C4_ResetEmptiesBothRelations ==
    (last.op = "open" /\ last.arg = TRUE)
        => (file_digests = {} /\ video_hash_exists /\ video_hash = {})

\* C9: every HistogramRecord id is the id of a FileRecord the Store holds.
C9_HistogramRefersToFile ==
    \A h \in video_hash : \E f \in file_digests : f.id = h.id

\* The file name of a path (what follows its last "/") and its extension (what
\* follows the last "." of the file name; <<>> when the name has no ".").
LastIndexOf(s, c) == IF \E i \in DOMAIN s : s[i] = c
                     THEN Max({i \in DOMAIN s : s[i] = c}) ELSE 0
FileName(path) == SubSeq(path, LastIndexOf(path, "/") + 1, Len(path))
Extension(path) ==
    LET name == FileName(path)
    IN  IF LastIndexOf(name, ".") = 0 THEN <<>>
        ELSE SubSeq(name, LastIndexOf(name, ".") + 1, Len(name))
HasVideoExtension(path) == sql_lower(Extension(path)) \in VideoExtensions

\* C10: list_videos_missing_histogram returns exactly the rows whose lowercased
\* extension is one of mp4, avi, mkv, wmv, flv and that have no HistogramRecord.
C10_ListsVideosByExtension ==
    (last.op = "list_videos_missing_histogram" /\ last.ok)
        => {last.ret[i] : i \in DOMAIN last.ret}
             = {<<r.id, r.path, r.size>> :
                    r \in {q \in file_digests :
                               /\ HasVideoExtension(q.path)
                               /\ \A h \in video_hash : h.id # q.id}}

(***************************************************************************)
(* Claims about the Exact Clusterer.                                       *)
(***************************************************************************)
InBag(bag, id) == \E k \in DOMAIN bag : bag[k] = id

\* C6: for every list of FileRecords with digests of 4 bytes or more, two
\* records are in the same bag of find_similarities if and only if their
\* digests are byte-equal.
C6_SameBagIffEqualDigest ==
    ex_pc = "done" =>
        \A i, j \in DOMAIN ex_files :
            i # j =>
                ((\E bag \in ex_result :
                     InBag(bag, ex_files[i].id) /\ InBag(bag, ex_files[j].id))
                 <=> ex_files[i].digest = ex_files[j].digest)

\* The list held two records of one digest and a third that shares their 4-byte
\* prefix and differs later.
C6_Witness ==
    /\ ex_pc = "done"
    /\ \E i, j, k \in DOMAIN ex_files :
           /\ i # j /\ ex_files[i].digest = ex_files[j].digest
           /\ ex_files[k].digest # ex_files[i].digest
           /\ lookup_value(ex_files[k].digest) = lookup_value(ex_files[i].digest)
    /\ ex_result # {}

(***************************************************************************)
(* Claims about the Perceptual Clusterer.                                  *)
(***************************************************************************)
RECURSIVE SumAbsDiff(_, _, _)
SumAbsDiff(a, b, n) ==
    IF n = 0 THEN 0 ELSE Abs(a[n] - b[n]) + SumAbsDiff(a, b, n - 1)

\* C8: the matrix of calculate_distances is symmetric and zero on the
\* diagonal, and every off-diagonal entry is the L1 distance (the sum of the
\* element-wise absolute differences) of the two histograms.
C8_DistanceMatrix ==
    vh_pc \in {"distances", "done"} =>
        \A i, j \in 1..Len(vh_files) :
            /\ vh_dist[<<i, j>>] = vh_dist[<<j, i>>]
            /\ vh_dist[<<i, i>>] = 0
            /\ i # j =>
                   vh_dist[<<i, j>>] =
                       SumAbsDiff(vh_files[i].histogram, vh_files[j].histogram,
                                  Len(vh_files[i].histogram))

\* calculate_distances ran on three files whose pairwise distances are
\* positive and not all the same.
C8_Witness ==
    /\ vh_pc = "distances"
    /\ Len(vh_files) = 3
    /\ vh_dist[<<2, 1>>] > 0
    /\ vh_dist[<<3, 1>>] > 0 /\ vh_dist[<<3, 2>>] > 0
    /\ vh_dist[<<3, 1>>] # vh_dist[<<3, 2>>]

InVhBag(bag, i) == \E k \in DOMAIN bag : bag[k] = i

\* C5: no bag emitted by find_similar_files contains a file whose histogram is
\* all zero, wherever the file stands in the list.
C5_NoZeroHistogramInBag ==
    vh_pc = "done" =>
        \A bag \in vh_bags : \A k \in DOMAIN bag :
            ~all_zero(vh_files[bag[k]].histogram)

\* The threshold relation of the claim: a pair below the threshold in which
\* neither histogram is all zero.
Linked(i, j) ==
    /\ vh_dist[<<i, j>>] < vh_threshold
    /\ ~all_zero(vh_files[i].histogram)
    /\ ~all_zero(vh_files[j].histogram)

RECURSIVE Reach(_, _)
Reach(S, n) ==
    IF n = 0 THEN S
    ELSE Reach(S \cup {j \in 1..Len(vh_files) : \E i \in S : Linked(i, j)},
               n - 1)

Chained(i, j) == j \in Reach({i}, Len(vh_files))

\* C7: two files are in the same emitted bag if and only if a chain of linked
\* pairs joins them; every bag has at least 2 files and a file is in at most
\* one bag.
C7_GroupingIsTransitiveClosure ==
    vh_pc = "done" =>
        /\ \A i, j \in 1..Len(vh_files) :
               i # j =>
                   ((\E bag \in vh_bags : InVhBag(bag, i) /\ InVhBag(bag, j))
                    <=> Chained(i, j))
        /\ \A bag \in vh_bags : Len(bag) >= 2
        /\ \A i \in 1..Len(vh_files) :
               Cardinality({bag \in vh_bags : InVhBag(bag, i)}) <= 1

(***************************************************************************)
(* Claims about the query server.                                          *)
(***************************************************************************)
RowSet(rows) == {rows[i] : i \in DOMAIN rows}

\* C11: refresh holds the Store lock for its whole read, so what it reads is
\* the Store's content at one instant: when the SELECT has finished its rows
\* are the (file, histogram) pairs the Store holds at that instant, and the
\* file rows it held half way were the Store's file rows of that moment.
C11_ViewIsOneInstant ==
    /\ rf_pc = "files" => RowSet(rf_rows) = file_digests
    /\ rf_pc = "joined" =>
           RowSet(rf_rows) =
               RowSet(get_all_files_with_videohash(file_digests, video_hash,
                                                   video_hash_exists).rows)

\* A refresh has read a view of at least one pair that differs from the view
\* published before it.
C11_Witness ==
    /\ rf_pc = "joined" /\ db_mutex = "refresh"
    /\ Len(rf_rows) >= 1 /\ rf_rows # vh_files
    /\ Cardinality(file_digests) > Len(rf_rows)

\* C12: when allow_preview is off, no GET /preview/{id} returns the bytes of a
\* file.
C12_PreviewGated ==
    (last.op = "preview" /\ ~allow_preview) => ~last.ok

(***************************************************************************)
(* Claims about the pipelines.                                             *)
(***************************************************************************)
\* C13: in the Digest Pipeline a per-file error of any kind (open, read in the
\* middle of the file, stat) is logged and skipped: the pipeline does not
\* terminate on it, and every other path of the input is digested and
\* committed.
C13_PerFileErrorsSkipped ==
    pl_kind = "digest" =>
        /\ ~(pl_pc = "aborted" /\ pl_result = "none")
        /\ (pl_pc = "returned" /\ pl_result = "ok") =>
               \A p \in pl_input :
                   pl_outcome[p] = "ok" => p \in PathsOf(file_digests)

\* C14: a failed batch commit ends the pipeline and is returned to the caller:
\* the failed transaction is the last one attempted, and the function has
\* returned an error.
C14_CommitFailureEndsPipeline ==
    \A k \in DOMAIN pl_commits :
        ~pl_commits[k].ok =>
            /\ k = Len(pl_commits)
            /\ pl_result = "err"
            /\ pl_pc \in {"returned", "aborted"}

\* A commit failed after an earlier one had succeeded, with work left over.
C14_Witness ==
    /\ Len(pl_commits) >= 2
    /\ ~pl_commits[Len(pl_commits)].ok
    /\ pl_commits[1].ok
    /\ pl_todo # {}
    /\ pl_result = "err"

\* C15: when the Digest Pipeline returns successfully on paths that are all
\* absent from the Store and all readable, the Store holds exactly one row for
\* each of them, for every commit_batchsize >= 1, every input size and every
\* order of the producers.
C15_EveryPathCommittedOnce ==
    (/\ pl_kind = "digest" /\ pl_pc = "returned" /\ pl_result = "ok"
     /\ \A p \in pl_input : pl_outcome[p] = "ok")
        => \A p \in pl_input :
               Cardinality({r \in file_digests : r.path = p}) = 1

\* Three paths went through with commit_batchsize 2: one full batch and a
\* remainder of one.
C15_Witness ==
    /\ pl_kind = "digest" /\ pl_pc = "returned" /\ pl_result = "ok"
    /\ Cardinality(pl_input) = 3 /\ commit_batchsize = 2
    /\ \A p \in pl_input : pl_outcome[p] = "ok"
    /\ Len(pl_commits) = 2

\* C16: the buffer never holds more than commit_batchsize records; every
\* transaction of the loop carries exactly commit_batchsize records; the final
\* flush, if there is one, is the last transaction and carries between 1 and
\* commit_batchsize - 1 records.
C16_BatchSizes ==
    /\ Len(pl_buf) <= commit_batchsize
    /\ \A k \in DOMAIN pl_commits :
           /\ pl_commits[k].at = "loop" => pl_commits[k].n = commit_batchsize
           /\ pl_commits[k].at = "flush" =>
                  /\ k = Len(pl_commits)
                  /\ pl_commits[k].n >= 1
                  /\ pl_commits[k].n <= commit_batchsize - 1

\* A pipeline has committed a full batch in the loop and then a remainder.
C16_Witness ==
    /\ pl_pc = "returned" /\ pl_result = "ok"
    /\ Len(pl_commits) >= 2
    /\ pl_commits[1].at = "loop"
    /\ pl_commits[Len(pl_commits)].at = "flush"

(***************************************************************************)
(* Claims about reconciliation.                                            *)
(***************************************************************************)
\* The producers of this run have treated every file as those of the run
\* before did.
SameOutcomes(now, before) ==
    \A i \in DOMAIN now \cap DOMAIN before : now[i] = before[i]

C18_RemovesExactlyOrphans ==
    [][(rc_pc = "start" /\ clean_unfound /\ rc_pc' = "filter")
       => /\ file_digests' = {r \in file_digests : r.path \in complete_filelist}
          /\ get_all_filedigests(file_digests')
               = SelectSeq(get_all_filedigests(file_digests),
                           LAMBDA r : r.path \in complete_filelist)]_vars

\* remove_outdated_files has removed a row and kept a row with a larger id.
C18_Witness ==
    /\ rc_pc = "filter" /\ clean_unfound
    /\ rc_removed # {}
    /\ \E r \in file_digests : r.id > 1

\* C19: the set handed to the Digest Pipeline is the listing minus the paths
\* of the Store's rows, and the filter does not change the Store.
C19_PipelineGetsUnknowns ==
    [][(rc_pc = "filter" /\ rc_pc' = "process")
       => /\ pl_input' = complete_filelist \ PathsOf(file_digests)
          /\ file_digests' = file_digests
          /\ video_hash' = video_hash]_vars

\* The filter has kept part of the listing and dropped the rest.
C19_Witness ==
    /\ rc_pc = "process" /\ pl_todo = pl_input
    /\ pl_input # {} /\ pl_input # complete_filelist
    /\ PathsOf(file_digests) \ complete_filelist # {}

\* C20: reconciliation leaves Known rows untouched.  No step of a run of
\* update_database, with clean_unfound on or off, changes or removes a row
\* whose path is in the disk listing, whatever the disk now holds at the path.
C20_KnownRowsUntouched ==
    [][rc_pc # "idle" =>
          \A r \in file_digests :
              r.path \in complete_filelist => r \in file_digests']_vars

\* A run with clean_unfound has removed an orphan and committed a new file,
\* and a row of the listing still holds a digest the disk no longer has.
C20_Witness ==
    /\ rc_pc = "done" /\ clean_unfound
    /\ rc_removed # {} /\ Len(pl_commits) >= 1
    /\ \E r \in file_digests :
           /\ r.path \in complete_filelist
           /\ r.digest # DiskContent(r.path).digest
(***************************************************************************)
(* The Store filled by direct inserts and by one run of the Digest         *)
(* Pipeline, and listed.  process_filelist borrows the Database mutably    *)
(* for as long as it runs, so no other call reaches the Store meanwhile.   *)
(***************************************************************************)
\* process_filelist(db, filelist, commit_batchsize) is called, as
\* update_database calls it, with paths the Store does not hold.
ProcessFilelist(paths) ==
    /\ pl_pc = "idle"
    /\ paths \cap PathsOf(file_digests) = {}
    /\ pl_input' = paths /\ pl_todo' = paths
    /\ pl_pc' = "run"
    /\ UNCHANGED <<pl_kind, pl_result, commit_batchsize, pl_outcome, pl_chan, pl_buf,
                   pl_commits, store_vars, exact_vars, video_vars, web_vars, rc_vars>>

\* The direct inserts come first, then the run of the pipeline; the Store is
\* listed before and after the run.
ListingInsertFile(file) == pl_pc = "idle" /\ InsertFile(file)
ListingInsertFilesBatch(files, fail_at) == pl_pc = "idle" /\ InsertFilesBatch(files, fail_at)
ListingListFiles == pl_pc # "run" /\ ListFiles

InitListing ==
    /\ StoreInit /\ video_hash_exists = FALSE
    /\ ExactIdle /\ VideoIdle /\ WebIdle /\ ReconcileIdle
    /\ pl_kind = "digest" /\ pl_pc = "idle" /\ pl_input = {} /\ pl_todo = {}
    /\ PipeStart
NextListing ==
    \/ \E file \in DiskFileDigests : ListingInsertFile(file)
    \/ \E files \in FileBatches :
          \E fail_at \in 0..(Len(files) + 1) : ListingInsertFilesBatch(files, fail_at)
    \/ ListingListFiles
    \/ \E paths \in SUBSET Paths : ProcessFilelist(paths)
    \/ \E outcome \in DigestOutcomes : \E item \in Paths : Produce(item, outcome)
    \/ \E fails \in BOOLEAN : ConsumeMessage(fails)
    \/ \E fails \in BOOLEAN : FinalFlush(fails)
    \/ ProducerSendFails
SpecListing == InitListing /\ [][NextListing]_vars

(***************************************************************************)
(* GET /remove/{id} with its response.  fs is what the file system does    *)
(* with the path of the row: "exists" (the file is there and is removed),  *)
(* "missing" (path.exists() is false), "error" (the file is there and      *)
(* fs::remove_file fails).                                                 *)
(***************************************************************************)
\* handle_remove_request: Response::text(status), or the error as a 500.
HandleRemoveRequest(id, fs) ==
    /\ db_mutex = "free"
    /\ LET r == delete_file(file_digests, id, fs)
       IN  /\ file_digests' = r.table
           /\ last' = Call("remove", r.ok, r.status, <<id, fs>>, <<>>)
    /\ UNCHANGED <<video_hash, video_hash_exists, filelist, exact_vars, video_vars, ext_vars>>

InitRemove ==
    /\ StoreInit /\ video_hash_exists /\ ExactIdle /\ VideoIdle /\ WebInit
    /\ PipeIdle /\ ReconcileIdle
NextRemove ==
    \/ \E file \in DiskFileDigests : WebIndexFile(file)
    \/ \E id \in 1..MaxWebId, new_name \in Paths, fs \in FsOutcomes :
          WebRename(id, new_name, fs)
    \/ \E id \in 1..MaxWebId, fs \in FsOutcomes : HandleRemoveRequest(id, fs)
SpecRemove == InitRemove /\ [][NextRemove]_vars

(***************************************************************************)
(* Digests by their length.  get_hash::<Blake2b> yields 64 bytes; the      *)
(* Store takes the Vec<u8> of the FileDigest it is handed as it is.        *)
(***************************************************************************)
HashLen == 64       \* bytes of a Blake2b digest

\* The digest of "Hello, world!" (test_blake2_hash) by its first byte, and the
\* digest the tests of the Store insert.
Blake2bDigest == [k \in 1..HashLen |-> IF k = 1 THEN 162 ELSE 0]
TestDigest == <<0, 1, 2, 3>>
DigestLenFiles ==
    {[id |-> -1, path |-> p, digest |-> d, size |-> 1] :
        p \in Paths, d \in {Blake2bDigest, TestDigest}}

InitDigestLen == StoreInit /\ video_hash_exists = FALSE /\ ExactIdle /\ VideoIdle /\ ExtIdle
NextDigestLen ==
    \/ \E file \in DigestLenFiles : InsertFile(file)
    \/ \E files \in SeqsUpTo(DigestLenFiles, MaxBatch) :
          \E fail_at \in 0..(Len(files) + 1) : InsertFilesBatch(files, fail_at)
    \/ ListFiles
SpecDigestLen == InitDigestLen /\ [][NextDigestLen]_vars

(***************************************************************************)
(* Exact Clusterer, the whole of it: similarities.rs,                      *)
(* get_list_of_similar_files.  The bags of find_similarities come out of a *)
(* HashSet in any order and are sorted, not stably, on the size of their   *)
(* first entry.  A size read from the Store is below 2^63, so the cast to  *)
(* i64 and the negation of the key lose nothing.                           *)
(***************************************************************************)
MaxRbFiles == 4     \* most rows of the Store that is clustered

Digits == <<"1", "2", "3", "4", "5", "6">>
RbPath(i) == <<"/", Digits[i]>>

\* What a row holds: two digests that share their first four bytes; one of
\* them is held with two sizes (a digest of a truncated read, or a collision).
RbContents == {[digest |-> <<0, 1, 2, 3, 0>>, size |-> 2],
               [digest |-> <<0, 1, 2, 3, 1>>, size |-> 1],
               [digest |-> <<0, 1, 2, 3, 1>>, size |-> 3]}
RbStores ==
    {{[id |-> i, path |-> RbPath(i), digest |-> c[i].digest, size |-> c[i].size] :
         i \in DOMAIN c} : c \in SeqsUpTo(RbContents, MaxRbFiles)}

FileEntry(f) == [id |-> f.id, path |-> f.path, size |-> f.size]

\* The key of into_resultbag with the sign dropped: small bags first.
sort_key_ascending(bag) == bag[1].size

\* |k| -(k[0].size as i64)
sort_key(bag) == 0 - bag[1].size

\* into_resultbag: every result it can return.  A lookup that fails ends it
\* with the error.
into_resultbag(table, similar_files) ==
    IF \E id_list \in similar_files : \E k \in DOMAIN id_list :
           ~lookup_filedigest(table, id_list[k]).ok
    THEN {[ok |-> FALSE, bags |-> <<>>]}
    ELSE LET entries == {[k \in DOMAIN id_list |->
                             FileEntry(lookup_filedigest(table, id_list[k]).row)] :
                         id_list \in similar_files}
             n == Cardinality(entries)
         IN  {[ok |-> TRUE, bags |-> b] :
                 b \in {s \in [1..n -> entries] :
                           /\ \A i, j \in 1..n : s[i] = s[j] => i = j
                           /\ \A i, j \in 1..n :
                                 i < j => sort_key(s[i]) <= sort_key(s[j])}}

ResultbagInit ==
    /\ file_digests \in RbStores /\ video_hash = {} /\ video_hash_exists = FALSE
    /\ filelist = {} /\ last = Call("open", TRUE, "", FALSE, <<>>)
    /\ ex_files = <<>> /\ ex_result = {} /\ ex_pc = "list"

\* let files = db.get_all_filedigests()?
GetAllFiledigests ==
    /\ ex_pc = "list"
    /\ ex_files' = get_all_filedigests(file_digests)
    /\ ex_pc' = "start"
    /\ UNCHANGED <<ex_result, store_vars, video_vars, ext_vars>>

\* let results = into_resultbag(&db, &similar_files)?
IntoResultbag ==
    /\ ex_pc = "done"
    /\ \E r \in into_resultbag(file_digests, ex_result) :
          last' = Call("into_resultbag", r.ok, "", ex_result, r.bags)
    /\ ex_pc' = "result"
    /\ UNCHANGED <<file_digests, video_hash, video_hash_exists, filelist, ex_files,
                   ex_result, video_vars, ext_vars>>

InitResultbag == ResultbagInit /\ VideoIdle /\ ExtIdle
NextResultbag ==
    \/ GetAllFiledigests
    \/ FindSimilarities
    \/ IntoResultbag
SpecResultbag == InitResultbag /\ [][NextResultbag]_vars

(***************************************************************************)
(* get_hash (filehashing.rs).  A file is its name and its length; what a   *)
(* hasher has been fed is a prefix of the file, and Blake2b is taken to    *)
(* give different digests to different prefixes.  Each call of read may    *)
(* return fewer bytes than were asked for, or fail.                        *)
(***************************************************************************)
BUFFER_SIZE == 1024
MaxReads == 3       \* calls of read whose result is chosen; later ones fill the buffer

HashedFiles == {[name |-> "test.txt", len |-> n] :
                   n \in {0, 13, 1023, 1024, 1025, 2048, 2500}}
\* What a call of read is ready to give: a failure (-1) or up to so many bytes.
ReadResults == {-1, 1, 1000, BUFFER_SIZE}
ReadSchedules == SeqsUpTo(ReadResults, MaxReads)

\* sh.finalize() after the first n bytes of the file went through sh.update
blake2b_of_prefix(file, n) == <<"Blake2b", file.name, n>>

\* The test of the loop that ends it at end of file only.
read_ends_loop_at_eof(n) == n = 0

\* if n == 0 || n < BUFFER_SIZE { break; }
read_ends_loop(n) == n = 0 \/ n < BUFFER_SIZE

\* The loop of get_hash from its k-th read on, pos bytes into the file; counts
\* are the values read has returned so far.
RECURSIVE get_hash_loop(_, _, _, _, _)
get_hash_loop(file, reads, k, pos, counts) ==
    LET ready == IF k <= Len(reads) THEN reads[k] ELSE BUFFER_SIZE
    IN  IF ready < 0
        THEN [outcome |-> "panic", counts |-> counts, digest |-> <<>>]
        ELSE LET n == Min({ready, BUFFER_SIZE, file.len - pos})
             IN  IF read_ends_loop(n)
                 THEN [outcome |-> "ok", counts |-> Append(counts, n),
                       digest |-> blake2b_of_prefix(file, pos + n)]
                 ELSE get_hash_loop(file, reads, k + 1, pos + n, Append(counts, n))

get_hash(file, opens, reads) ==
    IF ~opens THEN [outcome |-> "err", counts |-> <<>>, digest |-> <<>>]
    ELSE get_hash_loop(file, reads, 1, 0, <<>>)

\* get_hash is applied once, to a file and a behaviour of open and read.
GetHash(file, opens, reads) ==
    /\ last.op = "open"
    /\ LET r == get_hash(file, opens, reads)
       IN  last' = Call("get_hash", r.outcome = "ok", r.outcome, <<file, reads>>,
                        [digest |-> r.digest, counts |-> r.counts])
    /\ UNCHANGED <<file_digests, video_hash, video_hash_exists, filelist, exact_vars,
                   video_vars, ext_vars>>

InitGetHash == StoreInit /\ video_hash_exists = FALSE /\ ExactIdle /\ VideoIdle /\ ExtIdle
NextGetHash ==
    \E file \in HashedFiles, opens \in BOOLEAN, reads \in ReadSchedules :
        GetHash(file, opens, reads)
SpecGetHash == InitGetHash /\ [][NextGetHash]_vars

(***************************************************************************)
(* Perceptual Clusterer on histograms of full length: NUM_BUCKETS^3 = 64   *)
(* bytes, each 0..255, whatever blob the Store holds.                      *)
(***************************************************************************)
HistogramLen == 64
MaxVh64Files == 2   \* longest list of full-length histograms

Histograms64 ==
    {[k \in 1..HistogramLen |-> c] : c \in {0, 128, 255}}
    \cup {[k \in 1..HistogramLen |-> IF k % 2 = r THEN 255 ELSE 0] : r \in {0, 1}}
    \cup {[k \in 1..HistogramLen |-> IF k = 1 THEN 254 ELSE IF k = 2 THEN 1 ELSE 0],
          [k \in 1..HistogramLen |-> IF k = HistogramLen THEN 255 ELSE 0]}

Video64Init ==
    /\ vh_files \in SeqsUpTo([histogram : Histograms64], MaxVh64Files)
    /\ vh_threshold = 0 /\ vh_dist = <<>> /\ vh_bags = {} /\ vh_pc = "start"
    /\ uf = <<>>

InitVideo64 ==
    /\ StoreInit /\ video_hash_exists = FALSE /\ ExactIdle /\ Video64Init /\ ExtIdle
NextVideo64 ==
    \/ CalculateDistances
    \/ \E threshold \in Thresholds : FindSimilarFiles(threshold)
SpecVideo64 == InitVideo64 /\ [][NextVideo64]_vars

(***************************************************************************)
(* calculate_color_histogram (videohash.rs).  A decoded frame has 128 x    *)
(* 128 RGB pixels; it is given as runs <<colour, number of pixels>>.  The  *)
(* counters are u64 and the quotient is taken in f64: with fewer than      *)
(* 2^45 pixels the product is exact and the rounded quotient has the       *)
(* integer part of the exact one.  The cast of NaN (0.0 / 0.0) to u8       *)
(* gives 0.                                                                *)
(***************************************************************************)
NUM_BUCKETS_SHIFT == 6
NUM_BUCKETS == 4
PixelPerFrame == 16384
MaxFrames == 3      \* most frames a video decodes to

Frames ==
    {<< <<(<<0, 0, 0>>), PixelPerFrame>> >>,
     << <<(<<255, 255, 255>>), PixelPerFrame>> >>,
     << <<(<<0, 0, 0>>), 8192>>, <<(<<255, 0, 64>>), 8192>> >>,
     << <<(<<0, 0, 0>>), 16383>>, <<(<<63, 63, 64>>), 1>> >>,
     << <<(<<10, 200, 130>>), 5000>>, <<(<<70, 70, 70>>), 5000>>,
        <<(<<200, 10, 10>>), 6384>> >>}
HistogramVideos == SeqsUpTo(Frames, MaxFrames)

\* v >> NUM_BUCKETS_SHIFT
bucket_of(v) == v \div (2 ^ NUM_BUCKETS_SHIFT)

\* The place of histogram[[r, g, b]] in the flat array (row-major), from 1.
flat_index(rgb) ==
    bucket_of(rgb[1]) * NUM_BUCKETS * NUM_BUCKETS + bucket_of(rgb[2]) * NUM_BUCKETS
        + bucket_of(rgb[3]) + 1

\* The loops over the frames and their pixels: histogram[[r, g, b]] += 1 and
\* num_pixel += 1 for every pixel, a run at a time.
RECURSIVE count_pixels(_, _, _, _)
count_pixels(video, f, run, acc) ==
    IF f > Len(video) THEN acc
    ELSE IF run > Len(video[f]) THEN count_pixels(video, f + 1, 1, acc)
    ELSE LET at == flat_index(video[f][run][1])
             n == video[f][run][2]
             next == [histogram |-> [acc.histogram EXCEPT ![at] = @ + n],
                      num_pixel |-> acc.num_pixel + n]
         IN  IF next.num_pixel \in Nat THEN count_pixels(video, f, run + 1, next)
             ELSE next

\* The quotient rounded to the nearest whole number before the cast.
f64_round_as_u8(x, n) ==
    IF n = 0 THEN 0 ELSE Min({255, (2 * 255 * x + n) \div (2 * n)})

\* ((max * (*x) as f64) / n) as u8
f64_div_as_u8(x, n) ==
    IF n = 0 THEN 0 ELSE Min({255, (255 * x) \div n})

calculate_color_histogram(opens, video) ==
    IF ~opens THEN [ok |-> FALSE, histogram |-> <<>>, cube |-> <<>>, num_pixel |-> 0]
    ELSE LET zeros == [k \in 1..(NUM_BUCKETS * NUM_BUCKETS * NUM_BUCKETS) |-> 0]
             acc == count_pixels(video, 1, 1, [histogram |-> zeros, num_pixel |-> 0])
         IN  [ok |-> TRUE,
              histogram |-> [k \in DOMAIN acc.histogram |->
                                f64_div_as_u8(acc.histogram[k], acc.num_pixel)],
              cube |-> acc.histogram,
              num_pixel |-> acc.num_pixel]

\* calculate_color_histogram is applied once, to a video that Video::new opens
\* or does not.
CalculateColorHistogram(opens, video) ==
    /\ last.op = "open"
    /\ LET r == calculate_color_histogram(opens, video)
       IN  last' = Call("calculate_color_histogram", r.ok, "", video,
                        [histogram |-> r.histogram, cube |-> r.cube,
                         num_pixel |-> r.num_pixel])
    /\ UNCHANGED <<file_digests, video_hash, video_hash_exists, filelist, exact_vars,
                   video_vars, ext_vars>>

InitHistogram == StoreInit /\ video_hash_exists = FALSE /\ ExactIdle /\ VideoIdle /\ ExtIdle
NextHistogram ==
    \E opens \in BOOLEAN, video \in HistogramVideos :
        CalculateColorHistogram(opens, video)
SpecHistogram == InitHistogram /\ [][NextHistogram]_vars

(***************************************************************************)
(* Renaming, listing and ids.                                              *)
(***************************************************************************)
\* C21: a successful rename_file(id, new_path) changes only the path of the row
\* with that id: the row keeps its id, digest and size, every other row is as
\* it was, and no row appears or disappears.
C21_RenameChangesOnlyPath ==
    [][(last'.op = "rename_file" /\ last'.ok)
       => /\ \A r \in file_digests :
                IF r.id = last'.arg[1]
                THEN [r EXCEPT !.path = last'.arg[2]] \in file_digests'
                ELSE r \in file_digests'
          /\ Cardinality(file_digests') = Cardinality(file_digests)]_vars

\* A rename has succeeded on a Store of two rows or more, and the row now
\* holds the new path.
C21_Witness ==
    /\ last.op = "rename_file" /\ last.ok
    /\ Cardinality(file_digests) >= 2
    /\ \E r \in file_digests : r.id = last.arg[1] /\ r.path = last.arg[2]

\* C22: rename_file(id, new_path) reports an error when no row has that id
\* (NotFound) and when another row already holds new_path (duplicate path); in
\* both cases the Store is unchanged.
C22_RenameReportsErrors ==
    [][last'.op = "rename_file"
       => ((\/ ~\E r \in file_digests : r.id = last'.arg[1]
            \/ \E q \in file_digests : q.id # last'.arg[1] /\ q.path = last'.arg[2])
           => (~last'.ok /\ file_digests' = file_digests))]_vars

\* The sequence ret holds every row of table once, by strictly increasing id.
ListsEveryRowAscending(ret, table) ==
    /\ Len(ret) = Cardinality(table)
    /\ {ret[i] : i \in DOMAIN ret} = table
    /\ \A i, j \in DOMAIN ret : i < j => ret[i].id < ret[j].id

\* The rows of before are all in after, and the k-th record of files is in
\* after with the k-th id above every id of before (1..n on an empty table).
InsertedInOrder(files, before, after) ==
    LET top == IF before = {} THEN 0 ELSE Max({r.id : r \in before})
    IN  /\ before \subseteq after
        /\ Cardinality(after) = Cardinality(before) + Len(files)
        /\ \A k \in DOMAIN files :
              [id |-> top + k, path |-> to_string_lossy(files[k].path),
               digest |-> files[k].digest, size |-> files[k].size] \in after

\* The records the consumer holds, in the order it received them, at a commit.
ReceivedAtCommit ==
    IF pl_chan # <<>> /\ pl_chan' = Tail(pl_chan) /\ Head(pl_chan).ok
    THEN Append(pl_buf, Head(pl_chan).rec)
    ELSE pl_buf

\* C23: list_files returns every row of the Store, ids strictly increasing
\* along the sequence, and that order is the order of insertion: a successful
\* insert_file or insert_files_batch leaves the rows the Store held and gives
\* the inserted records, in the order handed over, the next ids above them
\* (1..n on an empty Store); a commit of the Digest Pipeline does the same
\* with the records in the order the consumer received them.
C23_ListInInsertionOrder ==
    [][/\ (last'.op = "list_files" /\ last' # last)
           => ListsEveryRowAscending(last'.ret, file_digests')
       /\ (last'.op = "insert_file" /\ last'.ok /\ last' # last)
           => InsertedInOrder(<<last'.arg>>, file_digests, file_digests')
       /\ (last'.op = "insert_files_batch" /\ last'.ok /\ last' # last)
           => InsertedInOrder(last'.arg, file_digests, file_digests')
       /\ (/\ Len(pl_commits') > Len(pl_commits)
           /\ pl_commits'[Len(pl_commits')].ok)
           => InsertedInOrder(ReceivedAtCommit, file_digests, file_digests')]_vars

\* The Store is listed after a run of the pipeline that committed two records
\* behind a row inserted directly: the listing holds the three rows, the
\* direct one first.
C23_Witness ==
    /\ pl_pc = "returned" /\ pl_result = "ok"
    /\ Cardinality(pl_input) = 2
    /\ last.op = "list_files" /\ Len(last.ret) = 3
    /\ last.ret[1].path \notin pl_input
    /\ {last.ret[2].path, last.ret[3].path} = pl_input
    /\ {last.ret[i] : i \in 1..3} = file_digests

\* C24: file ids are monotonic over the whole history of the Store: a
\* successful insert assigns ids above every id assigned before, ids of deleted
\* rows included.  So the insert that follows the deletion of a row gives its
\* new rows ids above the id of the deleted row.
C24_IdsNeverReused ==
    [][(/\ last.op = "delete_file" /\ last.ret = 1
        /\ last'.op \in {"insert_file", "insert_files_batch"} /\ last'.ok)
       => \A r \in file_digests' \ file_digests : r.id > last.arg]_vars

\* C25, as stated: a GET /remove/{id} for an id the Store holds deletes the
\* Store row and answers success when the file was on disk and does-not-exist
\* when it was not; afterwards no row has the id and every other row is as it
\* was.
C25_RemoveAlwaysDeletesRow ==
    [][(/\ last'.op = "remove" /\ last' # last
        /\ \E r \in file_digests : r.id = last'.arg[1])
       => /\ last'.ok
          /\ last'.err = IF last'.arg[2] = "missing" THEN "does-not-exist" ELSE "success"
          /\ file_digests' = {r \in file_digests : r.id # last'.arg[1]}]_vars

\* C25, amended: the same when removing the file on disk does not fail; when
\* it fails the request answers the error and the Store is unchanged.
C25_RemoveDeletesRow ==
    [][(/\ last'.op = "remove" /\ last' # last
        /\ \E r \in file_digests : r.id = last'.arg[1])
       => IF last'.arg[2] = "error"
          THEN ~last'.ok /\ file_digests' = file_digests
          ELSE /\ last'.ok
               /\ last'.err = IF last'.arg[2] = "missing" THEN "does-not-exist"
                               ELSE "success"
               /\ file_digests' = {r \in file_digests : r.id # last'.arg[1]}]_vars

\* A remove request has answered success and another row is still there.
C25_Witness ==
    /\ last.op = "remove" /\ last.ok /\ last.err = "success"
    /\ file_digests # {}
    /\ \A r \in file_digests : r.id # last.arg[1]

\* C26: every row committed through insert_file or insert_files_batch has a
\* digest of the full hash length, 64 bytes; the Store never holds a row with
\* a shorter, longer or missing digest.
C26_DigestFullLength == \A r \in file_digests : Len(r.digest) = HashLen

\* The ids of the rows of the Store that hold the digest of row r.
DigestGroup(r) == {q.id : q \in {q \in file_digests : q.digest = r.digest}}
BagIds(bag) == {bag[k].id : k \in DOMAIN bag}

\* C27: the Exact Clusterer emits every bag with 2 or more ids and no bag
\* with fewer (each set of two or more rows with one digest is one emitted
\* bag, and nothing else is emitted); the ids inside each emitted bag ascend;
\* and the bags come by non-increasing size of their first element.
C27_ResultBags ==
    (ex_pc = "result" /\ last.ok)
    => LET bags == last.ret
       IN  /\ \A i \in DOMAIN bags : Len(bags[i]) >= 2
           /\ \A r \in file_digests :
                 Cardinality(DigestGroup(r)) >= 2
                     => \E i \in DOMAIN bags : BagIds(bags[i]) = DigestGroup(r)
           /\ \A i \in DOMAIN bags :
                 \E r \in file_digests :
                    /\ BagIds(bags[i]) = DigestGroup(r)
                    /\ Len(bags[i]) = Cardinality(DigestGroup(r))
           /\ \A i, j \in DOMAIN bags : BagIds(bags[i]) = BagIds(bags[j]) => i = j
           /\ \A i \in DOMAIN bags :
                 \A k, m \in DOMAIN bags[i] : k < m => bags[i][k].id < bags[i][m].id
           /\ \A i, j \in DOMAIN bags : i < j => bags[i][1].size >= bags[j][1].size

\* Two bags were emitted, the one with the larger first element in front, and
\* a row that shares its digest with no other row was left out.
C27_Witness ==
    /\ ex_pc = "result" /\ last.ok
    /\ Len(last.ret) = 2
    /\ last.ret[1][1].size > last.ret[2][1].size
    /\ \E i \in 1..2 : last.ret[i][1].size # last.ret[i][2].size
    /\ Cardinality(file_digests) = MaxRbFiles

RECURSIVE SumSeq(_)
SumSeq(s) == IF s = <<>> THEN 0 ELSE Head(s) + SumSeq(Tail(s))

\* C28: get_hash stops reading at the first read that returns fewer bytes
\* than the buffer holds, not only at end of file: every read before the last
\* filled the buffer and the last did not; the digest covers the bytes read up
\* to and including that read; and when these are not the whole file the
\* digest is not the digest of the whole file.
C28_ShortReadEndsHash ==
    (last.op = "get_hash" /\ last.ok)
    => LET file == last.arg[1]
           counts == last.ret.counts
           total == SumSeq(counts)
       IN  /\ counts # <<>>
           /\ \A k \in DOMAIN counts :
                 IF k < Len(counts) THEN counts[k] = BUFFER_SIZE
                 ELSE counts[k] < BUFFER_SIZE
           /\ last.ret.digest = blake2b_of_prefix(file, total)
           /\ total < file.len
                 => last.ret.digest # blake2b_of_prefix(file, file.len)

\* A read in the middle of a file, after one that filled the buffer, returned
\* a short count, and the digest covers less than the file.
C28_Witness ==
    /\ last.op = "get_hash" /\ last.ok
    /\ Len(last.ret.counts) = 2
    /\ last.ret.counts[2] > 0
    /\ SumSeq(last.ret.counts) < last.arg[1].len
    /\ last.ret.digest # blake2b_of_prefix(last.arg[1], last.arg[1].len)

\* C29: for any two histograms of 64 bytes the L1 distance summed in a signed
\* 16-bit integer never overflows (every partial sum is an i16) and lies in
\* 0..16320, and the value stored in the u16 matrix is the exact sum of the
\* absolute byte differences.
C29_DistanceFitsI16 ==
    vh_pc \in {"distances", "done"} =>
        \A i, j \in 1..Len(vh_files) :
            i # j =>
                LET a == vh_files[i].histogram
                    b == vh_files[j].histogram
                IN  /\ Len(a) = HistogramLen /\ Len(b) = HistogramLen
                    /\ \A n \in 0..HistogramLen :
                          SumAbsDiff(a, b, n) \in 0..32767
                    /\ SumAbsDiff(a, b, HistogramLen) \in 0..16320
                    /\ vh_dist[<<i, j>>] \in 0..16320
                    /\ vh_dist[<<i, j>>] = SumAbsDiff(a, b, HistogramLen)

\* The matrix holds the largest distance there is, 64 * 255.
C29_Witness ==
    /\ vh_pc = "distances"
    /\ \E i, j \in 1..Len(vh_files) : vh_dist[<<i, j>>] = 16320

\* C30: the histogram has exactly 64 bytes, out[i] = floor(255 * cube_flat[i]
\* / total_pixels) for every bucket, so each byte is in 0..255 and the bytes
\* sum to at most 255; when no frame was decoded (total_pixels = 0) the
\* histogram is all zero.
C30_HistogramBytes ==
    (last.op = "calculate_color_histogram" /\ last.ok)
    => LET out == last.ret.histogram
           cube_flat == last.ret.cube
           total_pixels == last.ret.num_pixel
       IN  /\ Len(out) = 64
           /\ total_pixels = SumSeq(cube_flat)
           /\ total_pixels = PixelPerFrame * Len(last.arg)
           /\ \A i \in 1..64 :
                 /\ out[i] \in 0..255
                 /\ total_pixels > 0
                       => /\ out[i] * total_pixels <= 255 * cube_flat[i]
                          /\ 255 * cube_flat[i] < (out[i] + 1) * total_pixels
           /\ SumSeq(out) <= 255
           /\ total_pixels = 0 => \A i \in 1..64 : out[i] = 0

\* A video of more than one frame gave a histogram in which truncation lost
\* something: a bucket holds neither 0 nor 255 and the bytes sum to less
\* than 255.
C30_Witness ==
    /\ last.op = "calculate_color_histogram" /\ last.ok
    /\ Len(last.arg) >= 2
    /\ SumSeq(last.ret.histogram) < 255
    /\ \E i \in 1..64 : last.ret.histogram[i] \notin {0, 255}


(***************************************************************************)
(* The pipelines under fair scheduling: the threads of the rayon pool run  *)
(* the producers, the calling thread runs the consumer, and the operating  *)
(* system stops none of them for ever.                                     *)
(***************************************************************************)
PipelineFairness ==
    /\ WF_vars(PipeList)
    /\ WF_vars(\E outcome \in DigestOutcomes \cup HashOutcomes :
                  \E item \in PipeItems : Produce(item, outcome))
    /\ WF_vars(\E fails \in BOOLEAN : ConsumeMessage(fails))
    /\ WF_vars(\E fails \in BOOLEAN : FinalFlush(fails))
    /\ WF_vars(ProducerSendFails)
SpecPipelineFair == InitPipeline /\ [][NextPipeline]_vars /\ PipelineFairness

(***************************************************************************)
(* Claims about termination and the fabric.                                *)
(***************************************************************************)
\* C31: under fair scheduling each pipeline terminates for every finite input
\* list: the pipeline function returns, and on a successful return every
\* producer has finished, every message sent has been received, and what the
\* buffer held has been committed.
C31_PipelineTerminates ==
    /\ <>(pl_pc = "returned")
    /\ [](pl_pc = "returned" /\ pl_result = "ok" =>
            /\ pl_todo = {} /\ pl_chan = <<>>
            /\ has_remainder(pl_buf) =>
                   /\ pl_commits # <<>>
                   /\ pl_commits[Len(pl_commits)].at = "flush"
                   /\ pl_commits[Len(pl_commits)].ok)


\* C32: when the consumer has returned early on a failed commit, a producer
\* that is still running does not crash the process: its send finds the
\* channel closed and it stops without a panic.
C32_ClosedChannelNoPanic ==
    [][(pl_pc = "returned" /\ pl_result = "err") => pl_pc' # "aborted"]_vars


(***************************************************************************)
(* Histograms by the file they were computed from.  _create_hash decodes   *)
(* the file at the path of a listed row <<id, path, size>>; the histogram  *)
(* is a function of the bytes of that file, kept apart here by the last    *)
(* byte of their digest.                                                   *)
(***************************************************************************)
\* calculate_color_histogram on a file of content c
HistogramOfContent(c) == <<255, c.digest[4], 255, 0>>

\* _create_hash(id, path, size) on what the disk holds at path
CreateHashOfRow(row) ==
    [id |-> row[1], histogram |-> HistogramOfContent(DiskContent(row[2]))]

\* update_hashes, line 205: filelist holds the listed rows.
ListRowsMissingHistogram ==
    /\ LET r == get_files_without_videohash(file_digests, video_hash, video_hash_exists)
       IN  /\ filelist' = {r.rows[i] : i \in DOMAIN r.rows}
           /\ last' = Call("list_videos_missing_histogram", r.ok, r.err, <<>>, r.rows)
    /\ UNCHANGED <<file_digests, video_hash, video_hash_exists, exact_vars, video_vars, ext_vars>>

\* update_hashes, lines 238-252: the hashes of listed rows are committed.
CommitHashesOfRows(rows) ==
    /\ rows # <<>>
    /\ \A k \in DOMAIN rows : rows[k] \in filelist
    /\ \A j, k \in DOMAIN rows : rows[j] = rows[k] => j = k
    /\ LET hashes == [k \in DOMAIN rows |-> CreateHashOfRow(rows[k])]
           r == insert_many_videohashes(video_hash, video_hash_exists, hashes, 0)
       IN  /\ video_hash' = r.table
           /\ filelist' = IF r.ok THEN filelist \ {rows[k] : k \in DOMAIN rows}
                           ELSE {}
           /\ last' = Call("insert_histograms_batch", r.ok, r.err, Len(hashes), <<>>)
    /\ UNCHANGED <<file_digests, video_hash_exists, exact_vars, video_vars, ext_vars>>

\* The rows update_hashes can list.
ListedRows == {<<i, p, DiskContent(p).size>> : i \in 1..MaxId, p \in Paths}

InitProvenance == StoreInit /\ video_hash_exists /\ ExactIdle /\ VideoIdle /\ ExtIdle
NextProvenance ==
    \/ \E reset \in BOOLEAN : Open(reset)
    \/ \E file \in DiskFileDigests : InsertFile(file)
    \/ \E file_id \in 1..MaxId : DeleteFile(file_id)
    \/ \E id \in 1..MaxId, fs \in FsOutcomes : HandleRemoveRequest(id, fs)
    \/ ListRowsMissingHistogram
    \/ \E rows \in SeqsUpTo(ListedRows, MaxBatch) : CommitHashesOfRows(rows)
SpecProvenance == InitProvenance /\ [][NextProvenance]_vars

\* C33: a file never appears in the Store with a histogram computed for a
\* different file: a HistogramRecord with id k holds the histogram of the
\* content of the file that holds id k, and a file just inserted has no
\* HistogramRecord.
C33_HistogramOfItsFile ==
    /\ \A h \in video_hash : \A f \in file_digests :
           f.id = h.id =>
               h.histogram = HistogramOfContent([digest |-> f.digest, size |-> f.size])
    /\ (last.op = "insert_file" /\ last.ok) =>
           \A f \in file_digests :
               f.path = last.arg.path => f.id \notin {h.id : h \in video_hash}


(***************************************************************************)
(* The digest indexer next to the request handlers.  update_database and   *)
(* process_filelist take the Store as db: &mut Database: whoever calls     *)
(* them holds the Database alone from the call to the return, so a handler *)
(* (each locks the Mutex<Database>) runs before the call or after the      *)
(* return.                                                                 *)
(***************************************************************************)
\* A caller that hands out the Database without keeping others away from it.
borrow_shared(holder) == "free"

\* db: &mut Database
borrow_mut(holder) == holder

\* update_database(&mut db, path, commit_batchsize, clean_unfound) is called.
UpdateDatabaseCalled ==
    /\ rc_pc = "call" /\ db_mutex = "free"
    /\ db_mutex' = borrow_mut("indexer")
    /\ rc_pc' = "start"
    /\ UNCHANGED <<rf_pc, rf_rows, allow_preview, lock_vars, complete_filelist, clean_unfound,
                   rc_removed, rc_results, rc_prev_outcome, store_vars, exact_vars,
                   video_vars, pipe_vars>>

\* update_database has returned: the borrow ends.
UpdateDatabaseDone ==
    /\ rc_pc = "done" /\ db_mutex # "free"
    /\ db_mutex' = "free"
    /\ UNCHANGED <<rf_pc, rf_rows, allow_preview, lock_vars, rc_vars, store_vars, exact_vars,
                   video_vars, pipe_vars>>

\* handle_rename_request: Response::text(status), or the error as a 500.  The
\* response is kept with the path the row had and with whether fs::rename
\* has moved the file.
HandleRenameRequest(id, new_name, fs) ==
    /\ db_mutex = "free"
    /\ LET file == lookup_filedigest(file_digests, id)
           r == handle_rename_file(file_digests, id, new_name, fs)
       IN  /\ file_digests' = r.table
           /\ last' = Call("rename", r.ok, r.status, <<id, new_name, fs>>,
                           [from |-> IF file.ok THEN file.row.path ELSE <<>>,
                            moved |-> file.ok /\ fs = "exists"])
    /\ UNCHANGED <<video_hash, video_hash_exists, filelist, exact_vars, video_vars, ext_vars>>

\* A request made before update_database has returned.
RenameBeforeReturn(id, new_name, fs) ==
    rc_pc # "done" /\ HandleRenameRequest(id, new_name, fs)

\* Rows whose digest and size are those of the file the disk holds at their
\* path.
RowsOfDisk ==
    {[id |-> i, path |-> f.path, digest |-> f.digest, size |-> f.size] :
        i \in 1..MaxSeed, f \in DiskFileDigests}

InitIndexRename ==
    /\ rc_pc = "call"
    /\ complete_filelist \in SUBSET Paths
    /\ clean_unfound \in BOOLEAN
    /\ rc_removed = {} /\ rc_results = <<>> /\ rc_prev_outcome = <<>>
    /\ file_digests \in {t \in SeedStores : \A r \in t : r \in RowsOfDisk}
    /\ video_hash = {} /\ video_hash_exists = FALSE
    /\ filelist = {} /\ last = Call("open", TRUE, "", FALSE, <<>>)
    /\ pl_kind = "digest" /\ pl_pc = "idle" /\ pl_input = {} /\ pl_todo = {}
    /\ PipeStart
    /\ ExactIdle /\ VideoIdle /\ WebIdle
NextIndexRename ==
    \/ UpdateDatabaseCalled
    \/ RemoveOutdated
    \/ FilterAndStart
    \/ \E outcome \in DigestOutcomes : \E item \in Paths : Produce(item, outcome)
    \/ \E fails \in BOOLEAN : ConsumeMessage(fails)
    \/ \E fails \in BOOLEAN : FinalFlush(fails)
    \/ ProducerSendFails
    \/ UpdateDatabaseReturns
    \/ UpdateDatabaseDone
    \/ \E id \in 1..MaxWebId, new_name \in Paths, fs \in FsOutcomes :
          RenameBeforeReturn(id, new_name, fs)
SpecIndexRename == InitIndexRename /\ [][NextIndexRename]_vars

\* The paths of the records the pipeline has not committed yet: those still
\* with a producer, in the channel, or in the buffer.
PendingPaths ==
    pl_todo
    \cup {pl_chan[k].rec.path : k \in {j \in DOMAIN pl_chan : pl_chan[j].ok}}
    \cup {pl_buf[k].path : k \in DOMAIN pl_buf}

\* C34: a Digest Pipeline started with the Unknowns never hits IgnoredInsert:
\* from the computation of the Unknowns to the last commit no path the
\* pipeline still has to commit is in the Store, whatever /rename requests are
\* made, and the batch of a transaction that failed holds no path of the Store
\* (it failed on the Store's I/O).
C34_NoIgnoredInsert ==
    /\ (rc_pc = "process" /\ pl_pc = "run") =>
           PendingPaths \cap PathsOf(file_digests) = {}
    /\ (rc_pc = "process" /\ pl_result = "err") =>
           insert_many_filedigests(file_digests, pl_buf, 0).ok


\* A /rename request had taken a row away from a path of the listing; the run
\* that followed found the path unknown and has committed it.
C34_Witness ==
    /\ last.op = "rename" /\ last.ok
    /\ last.ret.from \in pl_input
    /\ rc_pc = "process" /\ db_mutex = "indexer"
    /\ pl_pc = "returned" /\ pl_result = "ok"
    /\ last.ret.from \in PathsOf(file_digests)
    /\ Len(pl_commits) >= 1


(***************************************************************************)
(* The locks.  rouille serves each request on a thread of its pool; the    *)
(* histogram indexer (update_hashes) is one more thread.  A thread goes    *)
(* through the instructions of its route: lock a mutex, look at what       *)
(* lock() returned, work under the guards it holds, drop a guard.  What    *)
(* the work does to the Store is in SpecWeb; here it ends in Ok, in an Err *)
(* that is returned, or in a panic.  A guard dropped by a panic poisons    *)
(* its mutex; lock() on a poisoned mutex takes the mutex and returns Err.  *)
(***************************************************************************)
MaxThreads == 2     \* threads of the server that serve requests

\* The threads by name: the indexer, and "1", "2", ... for the server's.
Indexer == "indexer"
FabricThreads == {Indexer} \cup {Digits[i] : i \in 1..MaxThreads}
\* The routes of the router.  /preview/{id}, /rename/{id}/{new_name} and
\* /remove/{id} are one route here, "by_id": each locks the Database, looks
\* the row up, acts on the file and returns Ok or Err.
Routes == {"index", "by_id", "videohash", "refresh"}

Instr(op, m) == [op |-> op, m |-> m]

\* The refresh route with the Store locked before the VideoHashData.
route_program_db_first(route) ==
    IF route = "refresh"
    THEN <<Instr("lock", "db"), Instr("check", "db"),
           Instr("lock", "vhd"), Instr("check", "vhd"),
           Instr("work", "refresh"), Instr("unlock", "db"),
           Instr("work", "handle_request"), Instr("unlock", "vhd")>>
    ELSE IF route = "videohash"
    THEN <<Instr("lock", "vhd"), Instr("check", "vhd"),
           Instr("work", "handle_request"), Instr("unlock", "vhd")>>
    ELSE IF route = "update_hashes"
    THEN <<Instr("lock", "db"), Instr("check", "db"), Instr("work", "list"),
           Instr("unlock", "db"),
           Instr("lock", "db"), Instr("check", "db"), Instr("work", "commit"),
           Instr("unlock", "db")>>
    ELSE <<Instr("lock", "db"), Instr("check", "db"), Instr("work", route),
           Instr("unlock", "db")>>

\* The instructions of a route of start_web_interface (handle_*_request,
\* VideoHashData::refresh, VideoHashData::handle_request) and of update_hashes.
route_program(route) ==
    IF route = "refresh"
    THEN <<Instr("lock", "vhd"), Instr("check", "vhd"),
           Instr("lock", "db"), Instr("check", "db"),
           Instr("work", "refresh"), Instr("unlock", "db"),
           Instr("work", "handle_request"), Instr("unlock", "vhd")>>
    ELSE IF route = "videohash"
    THEN <<Instr("lock", "vhd"), Instr("check", "vhd"),
           Instr("work", "handle_request"), Instr("unlock", "vhd")>>
    ELSE IF route = "update_hashes"
    THEN <<Instr("lock", "db"), Instr("check", "db"), Instr("work", "list"),
           Instr("unlock", "db"),
           Instr("lock", "db"), Instr("check", "db"), Instr("work", "commit"),
           Instr("unlock", "db")>>
    ELSE <<Instr("lock", "db"), Instr("check", "db"), Instr("work", route),
           Instr("unlock", "db")>>

\* How a piece of work can end.  handle_index_request unwraps the rendering;
\* the /refresh route unwraps the result of refresh.
WorkOutcomes == {"ok", "err", "panic"}
work_outcomes(work) ==
    IF work = "index" THEN {"ok", "err", "panic"} ELSE {"ok", "err"}

FabricIdle == [route |-> "none", pc |-> 0]
FabricDone == [route |-> "done", pc |-> 0]
\* A thread that has returned: a request thread takes the next request, the
\* indexer is finished.
Returned(t) == IF t = Indexer THEN FabricDone ELSE FabricIdle

CurrentInstr(t) ==
    IF req[t].pc \in DOMAIN route_program(req[t].route)
    THEN route_program(req[t].route)[req[t].pc]
    ELSE Instr("none", "none")

Holder(m) == IF m = "db" THEN db_mutex ELSE vhd_mutex

\* The guards of thread t are dropped.
DropGuards(t) ==
    /\ db_mutex' = IF db_mutex = t THEN "free" ELSE db_mutex
    /\ vhd_mutex' = IF vhd_mutex = t THEN "free" ELSE vhd_mutex

\* The router receives a request and hands it to a free thread.
FabricRequest(t, route) ==
    /\ t # Indexer /\ req[t] = FabricIdle
    /\ req' = [req EXCEPT ![t] = [route |-> route, pc |-> 1]]
    /\ UNCHANGED <<db_mutex, vhd_mutex, poisoned, rf_pc, rf_rows, allow_preview,
                   store_vars, exact_vars, video_vars, pipe_vars, rc_vars>>

\* mutex.lock() returns: the thread holds the mutex.
FabricLock(t) ==
    /\ CurrentInstr(t).op = "lock"
    /\ Holder(CurrentInstr(t).m) = "free"
    /\ IF CurrentInstr(t).m = "db"
       THEN db_mutex' = t /\ UNCHANGED vhd_mutex
       ELSE vhd_mutex' = t /\ UNCHANGED db_mutex
    /\ req' = [req EXCEPT ![t].pc = @ + 1]
    /\ UNCHANGED <<poisoned, rf_pc, rf_rows, allow_preview,
                   store_vars, exact_vars, video_vars, pipe_vars, rc_vars>>

\* What lock() returned is looked at.  "if let Ok(db) = db_mutex.lock()" goes
\* on with a sound mutex and returns Err("Unable to lock DB") with a poisoned
\* one: in the /refresh route that Err is unwrapped, a panic under the guard
\* of the VideoHashData.  vhd_mutex.lock().unwrap() panics on a poisoned mutex.
FabricCheck(t) ==
    /\ CurrentInstr(t).op = "check"
    /\ IF CurrentInstr(t).m \in poisoned
       THEN /\ DropGuards(t)
            /\ req' = [req EXCEPT ![t] = Returned(t)]
            /\ poisoned' = IF CurrentInstr(t).m = "db" /\ vhd_mutex = t
                           THEN poisoned \cup {"vhd"} ELSE poisoned
       ELSE /\ req' = [req EXCEPT ![t].pc = @ + 1]
            /\ UNCHANGED <<db_mutex, vhd_mutex, poisoned>>
    /\ UNCHANGED <<rf_pc, rf_rows, allow_preview,
                   store_vars, exact_vars, video_vars, pipe_vars, rc_vars>>

\* The work under the guards ends.  An Err is returned through "?", which
\* drops the guards of the function; a panic drops them and poisons their
\* mutexes.  The Err of refresh is unwrapped by the route after refresh has
\* dropped its guard of the Database.
FabricWork(t, outcome) ==
    /\ CurrentInstr(t).op = "work"
    /\ outcome \in work_outcomes(CurrentInstr(t).m)
    /\ IF outcome = "ok"
       THEN /\ req' = [req EXCEPT ![t].pc = @ + 1]
            /\ UNCHANGED <<db_mutex, vhd_mutex, poisoned>>
       ELSE /\ DropGuards(t)
            /\ req' = [req EXCEPT ![t] = Returned(t)]
            /\ poisoned' =
                  IF outcome = "panic"
                  THEN poisoned \cup {m \in {"db", "vhd"} : Holder(m) = t}
                  ELSE IF CurrentInstr(t).m = "refresh"
                  THEN poisoned \cup {"vhd"}
                  ELSE poisoned
    /\ UNCHANGED <<rf_pc, rf_rows, allow_preview,
                   store_vars, exact_vars, video_vars, pipe_vars, rc_vars>>

\* A guard goes out of scope.  After a commit update_hashes goes on to the
\* next batch (more) or returns.
FabricUnlock(t, more) ==
    /\ CurrentInstr(t).op = "unlock"
    /\ IF CurrentInstr(t).m = "db"
       THEN db_mutex' = "free" /\ UNCHANGED vhd_mutex
       ELSE vhd_mutex' = "free" /\ UNCHANGED db_mutex
    /\ IF req[t].pc < Len(route_program(req[t].route))
       THEN ~more /\ req' = [req EXCEPT ![t].pc = @ + 1]
       ELSE IF t = Indexer /\ more
       THEN req' = [req EXCEPT ![t].pc = 5]
       ELSE ~more /\ req' = [req EXCEPT ![t] = Returned(t)]
    /\ UNCHANGED <<poisoned, rf_pc, rf_rows, allow_preview,
                   store_vars, exact_vars, video_vars, pipe_vars, rc_vars>>

InitFabric ==
    /\ StoreInit /\ video_hash_exists /\ ExactIdle /\ VideoIdle
    /\ PipeIdle /\ ReconcileIdle
    /\ db_mutex = "free" /\ rf_pc = "idle" /\ rf_rows = <<>> /\ allow_preview = FALSE
    /\ vhd_mutex = "free" /\ poisoned = {}
    /\ req = [t \in FabricThreads |->
                 IF t = Indexer THEN [route |-> "update_hashes", pc |-> 1]
                 ELSE FabricIdle]
NextFabric ==
    \/ \E t \in FabricThreads, route \in Routes : FabricRequest(t, route)
    \/ \E t \in FabricThreads : FabricLock(t)
    \/ \E t \in FabricThreads : FabricCheck(t)
    \/ \E t \in FabricThreads, outcome \in WorkOutcomes : FabricWork(t, outcome)
    \/ \E t \in FabricThreads, more \in BOOLEAN : FabricUnlock(t, more)
\* Fair scheduling: a thread that can take a step takes it, and a thread that
\* waits for a mutex that is free again and again gets it.
FabricFairness ==
    \A t \in FabricThreads :
        /\ SF_vars(FabricLock(t))
        /\ WF_vars(FabricCheck(t))
        /\ WF_vars(\E outcome \in WorkOutcomes : FabricWork(t, outcome))
        /\ WF_vars(\E more \in BOOLEAN : FabricUnlock(t, more))
SpecFabric == InitFabric /\ [][NextFabric]_vars /\ FabricFairness

\* Thread t waits for the mutex m.
WaitsFor(t, m) == CurrentInstr(t).op = "lock" /\ CurrentInstr(t).m = m

handle_request(hashes, distances, threshold) ==
    {{hashes[bag[k]].id : k \in DOMAIN bag} :
        bag \in find_similar_files(hashes, distances, threshold)}

HandleVideohashRequest(threshold) ==
    /\ rf_pc = "idle"
    /\ last' = Call("videohash", TRUE, "", threshold,
                    handle_request(vh_files, vh_dist, threshold))
    /\ UNCHANGED <<file_digests, video_hash, video_hash_exists, filelist, exact_vars,
                   video_vars, ext_vars>>

\* A threshold under which nothing is similar, and one above the distance of
\* the histograms of StoreHistograms.
ViewThresholds == {0, 256}

NextView ==
    \/ \E file \in DiskFileDigests : WebIndexFile(file)
    \/ \E id \in 1..MaxWebId, fs \in FsOutcomes : WebRemove(id, fs)
    \/ \E id \in 1..MaxWebId, new_name \in Paths, fs \in FsOutcomes :
          WebRename(id, new_name, fs)
    \/ WebListVideos
    \/ \E hashes \in HashBatches : WebCommitHashes(hashes)
    \/ RefreshLock
    \/ RefreshReadFiles
    \/ RefreshJoin
    \/ RefreshDone
    \/ \E threshold \in ViewThresholds : HandleVideohashRequest(threshold)
SpecView == InitWeb /\ [][NextView]_vars

\* C36: the VideoHashView changes only when it is refreshed: /remove, /rename,
\* the indexer's commits and /videohash requests leave its file list and its
\* distance matrix as they are, and a /videohash answer holds bags of two or
\* more ids of the snapshot, whatever the Store holds by then.
C36_ViewChangesOnlyOnRefresh ==
    [][/\ (vh_files' # vh_files \/ vh_dist' # vh_dist) =>
              (rf_pc = "joined" /\ rf_pc' = "idle")
       /\ (last' # last /\ last'.op = "videohash") =>
              /\ vh_files' = vh_files /\ vh_dist' = vh_dist
              /\ \A bag \in last'.ret :
                     /\ Cardinality(bag) >= 2
                     /\ bag \subseteq {vh_files[k].id : k \in DOMAIN vh_files}]_vars

\* A /videohash answer names a file that has been removed from the Store since
\* the last refresh.
C36_Witness ==
    /\ last.op = "videohash"
    /\ \E bag \in last.ret : \E id \in bag : id \notin {f.id : f \in file_digests}


\* GET /rename/{id}/{new_name} with its response, on Stores the indexer fills.
NextRenameRoute ==
    \/ \E file \in DiskFileDigests : WebIndexFile(file)
    \/ \E id \in 1..MaxWebId, new_name \in Paths, fs \in FsOutcomes :
          HandleRenameRequest(id, new_name, fs)
SpecRenameRoute == InitRemove /\ [][NextRenameRoute]_vars

\* C37: a GET /rename/{id}/{new_path} request is atomic across disk and Store:
\* after it, either fs::rename has moved the file to new_path and the row of
\* the id holds new_path, or the file was not moved and the Store is as it
\* was.
C37_RenameAtomic ==
    [][(last' # last /\ last'.op = "rename") =>
          \/ /\ last'.ret.moved
             /\ \E r \in file_digests' : r.id = last'.arg[1] /\ r.path = last'.arg[2]
          \/ /\ ~last'.ret.moved
             /\ file_digests' = file_digests]_vars


(***************************************************************************)
(* The union-find of find_similar_files, turn by turn.  parent starts as   *)
(* parent[i] = i; _find and _union are then called in any order, as        *)
(* find_similar_files calls them for the pairs under the threshold and for *)
(* every file when it fills the bags.                                      *)
(***************************************************************************)
MaxUf == 3          \* files.len(): the length of parent

UfOthers == <<vh_files, vh_threshold, vh_dist, vh_bags, vh_pc, store_vars, exact_vars,
              ext_vars>>

\* for i in 0..files.len() { parent.push(i); }
UnionFindInit ==
    \E n \in 1..MaxUf :
        uf = [parent |-> [i \in 1..n |-> i], pc |-> "ready", op |-> "none",
              arg |-> <<>>, x |-> 0, x_root |-> 0, before |-> [i \in 1..n |-> i],
              ret |-> 0]

\* _find(y, &mut parent) is called: let mut x = y.
UfFindCalled(y) ==
    /\ uf.pc = "ready" /\ y \in DOMAIN uf.parent
    /\ uf' = [uf EXCEPT !.pc = "find", !.op = "find", !.arg = <<y>>, !.x = y,
                        !.before = uf.parent, !.x_root = 0, !.ret = 0]
    /\ UNCHANGED UfOthers

\* _union(x, y, &mut parent) is called: it calls _find(x, parent) first.
UfUnionCalled(x, y) ==
    /\ uf.pc = "ready" /\ x \in DOMAIN uf.parent /\ y \in DOMAIN uf.parent
    /\ uf' = [uf EXCEPT !.pc = "find_x", !.op = "union", !.arg = <<x, y>>, !.x = x,
                        !.before = uf.parent, !.x_root = 0, !.ret = 0]
    /\ UNCHANGED UfOthers

\* One turn of the loop of _find.
UfFindTurn ==
    /\ uf.pc \in {"find", "find_x", "find_y"}
    /\ uf.parent[uf.x] # uf.x
    /\ LET turn == _find_turn(uf.x, uf.parent)
       IN  uf' = [uf EXCEPT !.x = turn[1], !.parent = turn[2]]
    /\ UNCHANGED UfOthers

\* The loop of _find ends: return x.  In _union the root goes to x_root and
\* _find(y, parent) is called, or it is y_root.
UfFindReturns ==
    /\ uf.pc \in {"find", "find_x", "find_y"}
    /\ uf.parent[uf.x] = uf.x
    /\ uf' = IF uf.pc = "find" THEN [uf EXCEPT !.pc = "ready", !.ret = uf.x]
             ELSE IF uf.pc = "find_x"
             THEN [uf EXCEPT !.pc = "find_y", !.x_root = uf.x, !.x = uf.arg[2]]
             ELSE [uf EXCEPT !.pc = "link", !.ret = uf.x]
    /\ UNCHANGED UfOthers

\* if x_root == y_root { return; } parent[x_root] = y_root;
UfLink ==
    /\ uf.pc = "link"
    /\ uf' = IF uf.x_root = uf.ret THEN [uf EXCEPT !.pc = "ready"]
             ELSE [uf EXCEPT !.pc = "ready", !.parent[uf.x_root] = uf.ret]
    /\ UNCHANGED UfOthers

InitUnionFind ==
    /\ StoreInit /\ ~video_hash_exists /\ ExactIdle /\ ExtIdle
    /\ vh_files = <<>> /\ vh_threshold = 0 /\ vh_dist = <<>> /\ vh_bags = {}
    /\ vh_pc = "idle"
    /\ UnionFindInit
NextUnionFind ==
    \/ \E y \in 1..MaxUf : UfFindCalled(y)
    \/ \E x \in 1..MaxUf, y \in 1..MaxUf : UfUnionCalled(x, y)
    \/ UfFindTurn
    \/ UfFindReturns
    \/ UfLink
\* The thread that has called _find or _union goes on running it.
UnionFindFairness ==
    WF_vars(UfFindTurn) /\ WF_vars(UfFindReturns) /\ WF_vars(UfLink)
SpecUnionFind == InitUnionFind /\ [][NextUnionFind]_vars /\ UnionFindFairness

\* The element reached from e by following parent k times.
RECURSIVE Up(_, _, _)
Up(parent, e, k) == IF k = 0 THEN e ELSE Up(parent, parent[e], k - 1)

\* In a forest of n elements n steps lead from any element to its root.
RootOf(parent, e) == Up(parent, e, Len(parent))
IsForest(parent) ==
    \A e \in DOMAIN parent : parent[RootOf(parent, e)] = RootOf(parent, e)

\* C38: _find with its path compression preserves the partition: parent stays
\* a forest, during and after _find every element resolves to the root it had
\* before, _find returns the root of its argument, and every call ends;
\* _union leaves the elements of the tree of x with the root of y and every
\* other element with its own.
C38_UnionFindKeepsPartition ==
    /\ [](/\ IsForest(uf.parent)
          /\ uf.pc \in {"find", "find_x", "find_y", "link"} =>
                 \A e \in DOMAIN uf.parent :
                     RootOf(uf.parent, e) = RootOf(uf.before, e)
          /\ (uf.pc = "ready" /\ uf.op = "find") =>
                 /\ uf.ret = RootOf(uf.before, uf.arg[1])
                 /\ \A e \in DOMAIN uf.parent :
                        RootOf(uf.parent, e) = RootOf(uf.before, e)
          /\ (uf.pc = "ready" /\ uf.op = "union") =>
                 \A e \in DOMAIN uf.parent :
                     RootOf(uf.parent, e) =
                         IF RootOf(uf.before, e) = RootOf(uf.before, uf.arg[1])
                         THEN RootOf(uf.before, uf.arg[2])
                         ELSE RootOf(uf.before, e))
    /\ (uf.pc # "ready") ~> (uf.pc = "ready")

\* _find has run on an element two steps below its root and has moved it.
C38_Witness ==
    /\ uf.pc = "ready" /\ uf.op = "find"
    /\ uf.before[uf.arg[1]] # uf.arg[1]
    /\ uf.before[uf.before[uf.arg[1]]] # uf.before[uf.arg[1]]
    /\ uf.parent # uf.before

=============================================================================
